---- MODULE Spec2Model ----
(***************************************************************************)
(* Frame-to-time binning and chunked aggregation of LMT recordings:        *)
(* Binner (scripts/binner.py) and DataProcessingBinner /                   *)
(* DataFrameConstructor (scripts/data_extractor.py).                       *)
(*                                                                         *)
(* Time.  The code holds a timestamp as a float number of milliseconds and *)
(* as a pandas Timestamp.  Here an instant is an integer number of ticks,  *)
(* a tick being 1/TicksPerMs of a millisecond, the smallest unit in which  *)
(* one frame period (1000 / fps ms) is a whole number for every sampling   *)
(* rate of FPSValues.  Instants are counted from a reference instant that  *)
(* is a whole number of days after the Unix epoch, so that flooring to a   *)
(* whole number of minutes (pandas floors from the epoch) is flooring of   *)
(* the tick count.  The sub-microsecond error of the float arithmetic can  *)
(* change a result only where round() sits on a tie; a tie is therefore    *)
(* resolved by an input of the action (tie = 0: down, tie = 1: up).        *)
(***************************************************************************)
EXTENDS Integers, Sequences, FiniteSets, TLC

VARIABLES binner, raised, ret, rebuilder, analyser, nights

vars == <<binner, raised, ret, rebuilder, analyser, nights>>

-----------------------------------------------------------------------------
(* Optional arguments: None is <<>>, a given value v is <<v>>.             *)
None == <<>>
Some(v) == <<v>>
Val(x) == x[1]

Max(a, b) == IF a >= b THEN a ELSE b
Min(a, b) == IF a <= b THEN a ELSE b

-----------------------------------------------------------------------------
(* Program constants (lmtanalysis.Measure, frames at 30 frames per second) *)
oneSecond == 30
oneMinute == 60 * oneSecond
oneHour == 60 * oneMinute
oneDay == 24 * oneHour

MsPerSecond == 1000

(* Sampling rates the model constructs binners with.                       *)
FPSValues == {1, 25, 30, 60}

(* Ticks per millisecond: the least d with 1000 * d / fps whole for every  *)
(* rate of FPSValues.                                                      *)
TicksPerMs ==
    CHOOSE d \in 1..60 :
        /\ \A r \in FPSValues : (MsPerSecond * d) % r = 0
        /\ \A e \in 1..(d - 1) : \E r \in FPSValues : (MsPerSecond * e) % r # 0

TicksPerMinute == 60 * MsPerSecond * TicksPerMs

(* Ticks of one frame period at rate r: "1 / fps * 1000" ms.               *)
FramePeriod(r) == (MsPerSecond * TicksPerMs) \div r

-----------------------------------------------------------------------------
(* Clock                                                                   *)

(* self.bin_0: the instant of frame 0,                                     *)
(* last_timestamp - (last_frame / fps * 1000).                             *)
Bin0(last_timestamp, last_frame, r) ==
    LET t == last_timestamp * TicksPerMs - last_frame * FramePeriod(r)
    IN  [FRAMENUMBER |-> 0, TIMESTAMP |-> t, DATETIME |-> t]

frame_to_time_WholeSeconds(self, framenumber) ==
    self.bin_0.TIMESTAMP
        + (framenumber \div self.fps) * MsPerSecond * TicksPerMs

(* frame_to_time: bin_0["TIMESTAMP"] + framenumber / fps * 1000.           *)
frame_to_time(self, framenumber) ==
    self.bin_0.TIMESTAMP + framenumber * FramePeriod(self.fps)

(* Python round() of num / den (den > 0); an exact half goes the way the   *)
(* input tie says.                                                         *)
Round(num, den, tie) ==
    LET q == num \div den
        r == num % den
    IN  IF 2 * r < den THEN q
        ELSE IF 2 * r > den THEN q + 1
        ELSE q + tie

time_to_frame_Truncated(self, pd_datetime, tie) ==
    (pd_datetime - self.bin_0.DATETIME) \div FramePeriod(self.fps)

(* time_to_frame: round((t - bin_0["DATETIME"]).total_seconds() * fps).    *)
time_to_frame(self, pd_datetime, tie) ==
    Round(pd_datetime - self.bin_0.DATETIME, FramePeriod(self.fps), tie)

(* pandas Timestamp.floor("<n>min").                                       *)
FloorMin(t, n) == (t \div (n * TicksPerMinute)) * (n * TicksPerMinute)

-----------------------------------------------------------------------------
(* Bin Planner                                                             *)

(* The while loop of calculate_bin_df: the raw start frame of each bin,    *)
(* f, f + bin_size, ... as long as it is below last_frame.  The loop runs  *)
(* ceil((last_frame - f) / bin_size) times.                                *)
BinStartFrames(f, bin_size, last_frame) ==
    LET n == IF f < last_frame
             THEN (last_frame - f + bin_size - 1) \div bin_size
             ELSE 0
    IN  [k \in 1..n |-> f + (k - 1) * bin_size]

(* START_FRAME of the bin of raw start frame f.                            *)
BinStartFrame(self, f) == IF f > 0 THEN f ELSE 1

BinEndFrame_OneTooFar(self, f) ==
    IF f <= self.last_frame THEN f + self.bin_size ELSE self.last_frame

(* END_FRAME of the bin of raw start frame f.                              *)
BinEndFrame(self, f) ==
    IF f <= self.last_frame THEN f + self.bin_size - 1 ELSE self.last_frame

(* One row of bin_df for the raw start frame f.                            *)
BinRow(self, f) ==
    [START_FRAME |-> BinStartFrame(self, f),
     END_FRAME   |-> BinEndFrame(self, f),
     START_TIME  |-> frame_to_time(self, f),
     END_TIME    |-> frame_to_time(self, f + self.bin_size - 1)]

(* The frame the first calendar boundary falls on (start_frame_bin_1).     *)
StartFrameBin1(self, tie) ==
    LET dt_0     == frame_to_time(self, self.bin_size)
        dt_bin_0 == FloorMin(dt_0, self.bin_size \div (60 * self.fps))
    IN  time_to_frame(self, dt_bin_0, tie)

(* calculate_bin_df: the table of calendar-aligned bins of the recording.  *)
calculate_bin_df(self, tie) ==
    LET starts == BinStartFrames(StartFrameBin1(self, tie) - self.bin_size,
                                 self.bin_size, self.last_frame)
    IN  [i \in 1..Len(starts) |-> BinRow(self, starts[i])]

-----------------------------------------------------------------------------
(* Chunk Planner of DataProcessingBinner                                   *)

(* The least element of a non-empty set of integers.                       *)
Least(S) == CHOOSE m \in S : \A x \in S : m <= x

BeyondChunkLim_ByStart(row, chunk_lim) == row.START_FRAME > chunk_lim

(* The test of calculate_chunk_df that closes the current chunk.          *)
BeyondChunkLim(row, chunk_lim) == row.END_FRAME > chunk_lim

(* The for loop of calculate_chunk_df from row idx of bin_df on (rows are  *)
(* numbered from 1 here, from 0 in the code).  list_df is the list of      *)
(* chunks so far, the last one still open (END_FRAME = None).  The loop    *)
(* passes the rows whose END_FRAME is within chunk_lim; at the first row   *)
(* beyond it, it closes the open chunk on the row before and opens a chunk *)
(* of chunk_size frames at that row.                                       *)
RECURSIVE ChunkLoop(_, _, _, _, _)
ChunkLoop(bin_df, idx, list_df, chunk_lim, chunk_size) ==
    LET beyond == {i \in idx..Len(bin_df) :
                      BeyondChunkLim(bin_df[i], chunk_lim)}
    IN  IF beyond = {} THEN list_df
        ELSE
        LET i   == Least(beyond)
            row == bin_df[i]
            n   == Len(list_df)
        IN  ChunkLoop(bin_df, i + 1,
                Append([list_df EXCEPT
                           ![n].END_FRAME = Some(bin_df[i - 1].END_FRAME),
                           ![n].END_TIME = Some(bin_df[i - 1].END_TIME)],
                       [START_FRAME |-> row.START_FRAME,
                        END_FRAME   |-> None,
                        START_TIME  |-> row.START_TIME,
                        END_TIME    |-> None]),
                row.START_FRAME + chunk_size - 1, chunk_size)

(* The greatest value of a column (pandas Series.max).                     *)
ColumnMax(S) == CHOOSE m \in S : \A x \in S : x <= m

(* calculate_chunk_df: the table of chunks, each a run of whole rows of    *)
(* bin_df.                                                                 *)
calculate_chunk_df(self) ==
    LET bin_df == self.bin_df
    IN  IF Len(bin_df) = 1
        THEN <<[START_FRAME |-> bin_df[1].START_FRAME,
                END_FRAME   |-> bin_df[1].END_FRAME,
                START_TIME  |-> bin_df[1].START_TIME,
                END_TIME    |-> bin_df[1].END_TIME]>>
        ELSE
        LET first == [START_FRAME |-> bin_df[1].START_FRAME,
                      END_FRAME   |-> None,
                      START_TIME  |-> bin_df[1].START_TIME,
                      END_TIME    |-> None]
            chunk_lim == IF self.start_frame < bin_df[1].END_FRAME
                         THEN self.chunk_size
                         ELSE self.start_frame - 1
            list_df == ChunkLoop(bin_df, 2, <<first>>, chunk_lim,
                                 self.chunk_size)
            n == Len(list_df)
            end_frame == IF list_df[n].END_FRAME = None
                THEN ColumnMax({bin_df[i].END_FRAME : i \in 1..Len(bin_df)})
                ELSE Val(list_df[n].END_FRAME)
            end_time == IF list_df[n].END_TIME = None
                THEN ColumnMax({bin_df[i].END_TIME : i \in 1..Len(bin_df)})
                ELSE Val(list_df[n].END_TIME)
        IN  [i \in 1..n |->
                [START_FRAME |-> list_df[i].START_FRAME,
                 END_FRAME   |-> IF i = n THEN end_frame
                                 ELSE Val(list_df[i].END_FRAME),
                 START_TIME  |-> list_df[i].START_TIME,
                 END_TIME    |-> IF i = n THEN end_time
                                 ELSE Val(list_df[i].END_TIME)]]

-----------------------------------------------------------------------------
(* set_parameters                                                          *)

(* The outcome of a method call on the binner: the object after the call   *)
(* and whether the call raised.  A raise keeps the assignments made before *)
(* it.                                                                     *)
Returned(self) == [self |-> self, raised |-> FALSE]
Raised(self) == [self |-> self, raised |-> TRUE]

SetStartFrame_KeepWhenOmitted(self, start_frame) ==
    IF start_frame = None THEN Returned(self)
    ELSE IF Val(start_frame) < 1
    THEN Returned([self EXCEPT !.start_frame = 1])
    ELSE IF Val(start_frame) > self.last_frame
    THEN Raised(self)
    ELSE Returned([self EXCEPT !.start_frame = Val(start_frame)])

(* The start_frame branch of set_parameters.                               *)
SetStartFrame(self, start_frame) ==
    IF start_frame = None \/ Val(start_frame) < 1
    THEN Returned([self EXCEPT !.start_frame = 1])
    ELSE IF Val(start_frame) > self.last_frame
    THEN Raised(self)
    ELSE Returned([self EXCEPT !.start_frame = Val(start_frame)])

(* The end_frame branch of set_parameters.                                 *)
SetEndFrame(self, end_frame) ==
    IF end_frame = None \/ Val(end_frame) > self.last_frame
    THEN Returned([self EXCEPT !.end_frame = self.last_frame])
    ELSE IF Val(end_frame) < 1
    THEN Raised(self)
    ELSE Returned([self EXCEPT !.end_frame = Val(end_frame)])

SetWindow_Unordered(self, start_frame, end_frame) ==
    LET a == SetStartFrame(self, start_frame)
    IN  IF a.raised THEN a ELSE SetEndFrame(a.self, end_frame)

(* The frame limits of set_parameters, the same code in both classes.      *)
SetWindow(self, start_frame, end_frame) ==
    LET a == SetStartFrame(self, start_frame)
    IN  IF a.raised THEN a
        ELSE
        LET b == SetEndFrame(a.self, end_frame)
        IN  IF b.raised THEN b
            ELSE IF b.self.start_frame >= b.self.end_frame
            THEN Raised(b.self)
            ELSE b

(* The call of calculate_bin_df that ends set_parameters.  floor() of a    *)
(* frequency of zero minutes raises.                                       *)
SetBinDf(self, tie) ==
    IF self.bin_size \div (60 * self.fps) = 0
    THEN Raised(self)
    ELSE Returned([self EXCEPT !.bin_df = calculate_bin_df(self, tie)])

(* Binner.set_parameters(bin_size, start_frame, end_frame, fps).           *)
Binner_set_parameters(self, bin_size, start_frame, end_frame, r, tie) ==
    IF r < 1 THEN Raised(self)
    ELSE
    LET s1 == [self EXCEPT !.fps = r,
                           !.bin_0 = Bin0(self.last_timestamp,
                                          self.last_frame, r)]
    IN  IF bin_size # None /\ Val(bin_size) < 60 * s1.fps
        THEN Raised(s1)
        ELSE
        LET s2 == IF bin_size # None
                  THEN [s1 EXCEPT !.bin_size = Val(bin_size)] ELSE s1
            w  == SetWindow(s2, start_frame, end_frame)
        IN  IF w.raised THEN w ELSE SetBinDf(w.self, tie)

(* DataProcessingBinner.set_parameters(bin_size, chunk_size, start_frame,  *)
(* end_frame).                                                             *)
DPB_set_parameters(self, bin_size, chunk_size, start_frame, end_frame, tie) ==
    IF bin_size # None /\ Val(bin_size) <= oneMinute
    THEN Raised(self)
    ELSE
    LET s1 == IF bin_size # None
              THEN [self EXCEPT !.bin_size = Val(bin_size)] ELSE self
    IN  IF chunk_size # None /\ Val(chunk_size) <= oneHour
        THEN Raised(s1)
        ELSE IF chunk_size # None /\ Val(chunk_size) < s1.bin_size
        THEN Raised(s1)
        ELSE
        LET s2 == IF chunk_size # None
                  THEN [s1 EXCEPT !.chunk_size = Val(chunk_size)] ELSE s1
            w  == SetWindow(s2, start_frame, end_frame)
        IN  IF w.raised THEN w
            ELSE
            LET b == SetBinDf(w.self, tie)
            IN  IF b.raised THEN b
                ELSE Returned([b.self EXCEPT
                                  !.chunk_df = calculate_chunk_df(b.self)])

-----------------------------------------------------------------------------
(* Iterators                                                               *)

(* The rows of a table (bin_df or chunk_df) that get_bin_list and          *)
(* get_chunk_list keep: those that meet [start_frame, end_frame].          *)
InWindow(self, row) ==
    row.END_FRAME >= self.start_frame /\ row.START_FRAME <= self.end_frame

(* get_bin_list(bin_edge, "FRAME"), bin_edge being "START" or "END".       *)
get_bin_list(self, bin_edge) ==
    LET rows == SelectSeq(self.bin_df, LAMBDA row : InWindow(self, row))
    IN  [i \in 1..Len(rows) |->
            IF bin_edge = "START" THEN rows[i].START_FRAME
            ELSE rows[i].END_FRAME]

(* get_chunk_list(chunk_edge, "FRAME").                                    *)
get_chunk_list(self, chunk_edge) ==
    LET rows == SelectSeq(self.chunk_df, LAMBDA row : InWindow(self, row))
    IN  [i \in 1..Len(rows) |->
            IF chunk_edge = "START" THEN rows[i].START_FRAME
            ELSE rows[i].END_FRAME]

(* The two clamps every iterator starts with: frames_start[0] is raised to *)
(* start_frame and frames_end[-1] is lowered to end_frame.                 *)
ClampFirst(self, frames_start) ==
    IF frames_start[1] < self.start_frame
    THEN [frames_start EXCEPT ![1] = self.start_frame]
    ELSE frames_start

ClampLast_Never(self, frames_end) == frames_end

ClampLast(self, frames_end) ==
    IF frames_end[Len(frames_end)] > self.end_frame
    THEN [frames_end EXCEPT ![Len(frames_end)] = self.end_frame]
    ELSE frames_end

(* zip(frames_start, frames_end) as a sequence of <<start, end>>.          *)
Zip(frames_start, frames_end) ==
    [i \in 1..Min(Len(frames_start), Len(frames_end)) |->
        <<frames_start[i], frames_end[i]>>]

(* The value a getter returns, or IndexError (frames_start[0] of an empty  *)
(* list).                                                                  *)
Value(v) == [value |-> v, raised |-> FALSE]
IndexError == [value |-> <<>>, raised |-> TRUE]

(* The loop of Binner.get_bin_iterator over the zipped bins: a bin is     *)
(* kept if end > start_frame and start < end_frame, cut to the window.     *)
BinnerFilter(self, pairs) ==
    LET kept == SelectSeq(pairs, LAMBDA b : /\ b[2] > self.start_frame
                                            /\ b[1] < self.end_frame)
    IN  [i \in 1..Len(kept) |->
            <<Max(kept[i][1], self.start_frame),
              Min(kept[i][2], self.end_frame)>>]

(* Binner.get_bin_iterator.                                                *)
Binner_get_bin_iterator(self) ==
    LET frames_start == get_bin_list(self, "START")
        frames_end   == get_bin_list(self, "END")
    IN  IF frames_start = <<>> THEN IndexError
        ELSE Value(BinnerFilter(self, Zip(ClampFirst(self, frames_start),
                                          ClampLast(self, frames_end))))

(* DataProcessingBinner.get_bin_iterator.                                  *)
DPB_get_bin_iterator(self) ==
    LET frames_start == get_bin_list(self, "START")
        frames_end   == get_bin_list(self, "END")
    IN  IF frames_start = <<>> THEN IndexError
        ELSE Value(Zip(ClampFirst(self, frames_start),
                       ClampLast(self, frames_end)))

JoinsChunk_Inclusive(bin, chunk_start, chunk_size) ==
    bin[2] - chunk_start + 1 <= chunk_size

(* The test of split_iterator_in_chunks that keeps the bin in the current  *)
(* chunk.                                                                  *)
JoinsChunk(bin, chunk_start, chunk_size) ==
    bin[2] - chunk_start + 1 < chunk_size

(* The for loop of split_iterator_in_chunks from bin idx on: a bin joins   *)
(* the last chunk while bin[1] - chunk_start + 1 < chunk_size, and the     *)
(* first bin that does not opens a chunk of its own.                       *)
RECURSIVE SplitLoop(_, _, _, _, _)
SplitLoop(chunk_size, bin_iterator, idx, chunked_iterator, chunk_start) ==
    LET n == Len(chunked_iterator)
        m == Len(bin_iterator)
        beyond == {i \in idx..m :
                      ~JoinsChunk(bin_iterator[i], chunk_start, chunk_size)}
        stop == IF beyond = {} THEN m + 1 ELSE Least(beyond)
        grown == [chunked_iterator EXCEPT
                     ![n] = @ \o SubSeq(bin_iterator, idx, stop - 1)]
    IN  IF beyond = {} THEN grown
        ELSE SplitLoop(chunk_size, bin_iterator, stop + 1,
                       Append(grown, <<bin_iterator[stop]>>),
                       bin_iterator[stop][1])

(* Binner.split_iterator_in_chunks(chunk_size, bin_iterator).              *)
split_iterator_in_chunks(chunk_size, bin_iterator) ==
    IF bin_iterator = <<>> THEN IndexError
    ELSE Value(SplitLoop(chunk_size, bin_iterator, 2,
                         <<<<bin_iterator[1]>>>>, bin_iterator[1][1]))

(* DataProcessingBinner.get_process_iterator.                              *)
get_process_iterator(self) ==
    LET frames_start == get_chunk_list(self, "START")
        frames_end   == get_chunk_list(self, "END")
    IN  IF frames_start = <<>> THEN IndexError
        ELSE Value(Zip(ClampFirst(self, frames_start),
                       ClampLast(self, frames_end)))

BinInChunk_Strict(bin, chunk) == bin[1] > chunk[1] /\ bin[2] < chunk[2]

(* The test of get_bin_iterators_for_processing: the bin lies inside the   *)
(* chunk.                                                                  *)
BinInChunk(bin, chunk) == bin[1] >= chunk[1] /\ bin[2] <= chunk[2]

get_bin_iterators_for_processing_LastFirst(self) ==
    LET process_iterator == get_process_iterator(self)
        frames_start == get_bin_list(self, "START")
        frames_end   == get_bin_list(self, "END")
    IN  IF process_iterator.raised \/ frames_start = <<>> THEN IndexError
        ELSE
        LET bins == Zip(ClampFirst(self, frames_start),
                        ClampLast(self, frames_end))
            chunks == process_iterator.value
        IN  Value([c \in 1..Len(chunks) |->
                     SelectSeq(bins, LAMBDA b :
                         BinInChunk(b, chunks[Len(chunks) + 1 - c]))])

(* DataProcessingBinner.get_bin_iterators_for_processing: for each chunk   *)
(* of the process iterator, the bins that lie inside it.                   *)
get_bin_iterators_for_processing(self) ==
    LET process_iterator == get_process_iterator(self)
        frames_start == get_bin_list(self, "START")
        frames_end   == get_bin_list(self, "END")
    IN  IF process_iterator.raised \/ frames_start = <<>> THEN IndexError
        ELSE
        LET bins == Zip(ClampFirst(self, frames_start),
                        ClampLast(self, frames_end))
            chunks == process_iterator.value
        IN  Value([c \in 1..Len(chunks) |->
                     SelectSeq(bins, LAMBDA b : BinInChunk(b, chunks[c]))])

-----------------------------------------------------------------------------
(* Data store (lmtanalysis: AnimalPool, EventTimeLine, Animal)             *)

(* A data store holds the animals of the recording, in the order of the    *)
(* animal list and named by their RFID, and for each event name and animal *)
(* the intervals <<startFrame, endFrame>> of the event.  broken is the set  *)
(* of frames the store fails to read.                                      *)
getAnimalList(store) == store.animals

(* A load of the frames [minFrame, maxFrame] (EventTimeLine,               *)
(* loadDetection, reBuildEvent) raises when the store fails to read one of *)
(* them.                                                                   *)
LoadRaises(store, minFrame, maxFrame) ==
    \E f \in store.broken : minFrame <= f /\ f <= maxFrame

(* The intervals of the event of the animal that meet [minFrame, maxFrame]. *)
EventTimeLine(store, event, idA, minFrame, maxFrame) ==
    {iv \in store.events[event][idA] : iv[1] <= maxFrame /\ iv[2] >= minFrame}

(* The number of occurrences of the event in [minFrame, maxFrame].         *)
getNumberOfEvent(event_timeline, minFrame, maxFrame) ==
    Cardinality({iv \in event_timeline :
                    iv[1] <= maxFrame /\ iv[2] >= minFrame})

(* The frames of the event in [minFrame, maxFrame].                        *)
RECURSIVE getTotalDurationEvent(_, _, _)
getTotalDurationEvent(event_timeline, minFrame, maxFrame) ==
    IF event_timeline = {} THEN 0
    ELSE LET iv == CHOOSE x \in event_timeline : TRUE
         IN  Max(0, Min(iv[2], maxFrame) - Max(iv[1], minFrame) + 1)
             + getTotalDurationEvent(event_timeline \ {iv}, minFrame,
                                     maxFrame)

(* The distance and the speed moments of the animal in a bin: a value that *)
(* depends on the animal, the filters and the frame range of the bin.      *)
getDistancePerBin(animal, bin, filter_flickering, filter_stop) ==
    <<"distance", animal, bin, filter_flickering, filter_stop>>

getSpeedPerBin(animal, bin, filter_flickering, filter_stop) ==
    <<"speed", animal, bin, filter_flickering, filter_stop>>

-----------------------------------------------------------------------------
(* Aggregator: DataFrameConstructor                                        *)

ValueError == [value |-> <<>>, raised |-> TRUE]

(* A number of frames as a duration in minutes, frames / 30 / 60: the      *)
(* numerator and the denominator of the quotient.                          *)
Minutes(frames) == <<frames, 30 * 60>>

(* count_event_per_bin, for one bin of the iterator: (count, duration).    *)
count_event_per_bin(store, animal, event, bin_iterator, i) ==
    LET event_timeline ==
            EventTimeLine(store, event, animal, bin_iterator[1][1],
                          bin_iterator[Len(bin_iterator)][2])
        f_min == bin_iterator[i][1]
        f_max == bin_iterator[i][2]
    IN  <<getNumberOfEvent(event_timeline, f_min, f_max),
          getTotalDurationEvent(event_timeline, f_min, f_max)>>

RowsPerAnimalAndBin_FirstAnimal(store, bin_iterator) ==
    [k \in 1..Len(bin_iterator) |-> <<getAnimalList(store)[1], k>>]

(* The order of the rows of a table built animal by animal and, for each   *)
(* animal, bin by bin: the <<animal, index of the bin>> of each row.       *)
RowsPerAnimalAndBin(store, bin_iterator) ==
    LET animals == getAnimalList(store)
        n       == Len(bin_iterator)
    IN  [k \in 1..(Len(animals) * n) |->
            <<animals[((k - 1) \div n) + 1], ((k - 1) % n) + 1>>]

(* get_df_event: one row per animal and bin of the iterator.               *)
get_df_event(self, store, event, bin_iterator) ==
    LET Row(animal, i) ==
            LET c == count_event_per_bin(store, animal, event,
                                         bin_iterator, i)
            IN  [RFID        |-> animal,
                 EVENT       |-> event,
                 START_FRAME |-> bin_iterator[i][1],
                 END_FRAME   |-> bin_iterator[i][2],
                 START_TIME  |-> frame_to_time(self, bin_iterator[i][1]),
                 END_TIME    |-> frame_to_time(self, bin_iterator[i][2]),
                 EVENT_COUNT |-> c[1],
                 FRAME_COUNT |-> c[2],
                 DURATION    |-> Minutes(c[2])]
        order == RowsPerAnimalAndBin(store, bin_iterator)
    IN  [k \in 1..Len(order) |-> Row(order[k][1], order[k][2])]

(* get_df_activity: one row per animal and bin of the iterator.            *)
get_df_activity(self, store, bin_iterator, filter_flickering, filter_stop) ==
    LET Row(animal, i) ==
            LET stop     == count_event_per_bin(store, animal, "Stop",
                                                bin_iterator, i)
                move_iso == count_event_per_bin(store, animal,
                                                "Move isolated",
                                                bin_iterator, i)
                move_inc == count_event_per_bin(store, animal,
                                                "Move in contact",
                                                bin_iterator, i)
            IN  [RFID          |-> animal,
                 START_FRAME   |-> bin_iterator[i][1],
                 END_FRAME     |-> bin_iterator[i][2],
                 START_TIME    |-> frame_to_time(self, bin_iterator[i][1]),
                 END_TIME      |-> frame_to_time(self, bin_iterator[i][2]),
                 DISTANCE      |-> getDistancePerBin(animal, bin_iterator[i],
                                       filter_flickering, filter_stop),
                 SPEED         |-> getSpeedPerBin(animal, bin_iterator[i],
                                       filter_flickering, filter_stop),
                 STOP_COUNT    |-> stop[1],
                 STOP_DURATION |-> Minutes(stop[2]),
                 MOVE_COUNT    |-> move_iso[1] + move_inc[1],
                 MOVE_DURATION |-> Minutes(move_iso[2] + move_inc[2]),
                 UNDETECTED_DURATION |->
                     Minutes(bin_iterator[i][2] - bin_iterator[i][1]
                             - stop[2] - (move_iso[2] + move_inc[2]))]
        order == RowsPerAnimalAndBin(store, bin_iterator)
    IN  [k \in 1..Len(order) |-> Row(order[k][1], order[k][2])]

Concat_KeepLast(df, processed_df) == processed_df

(* df = processed_df if df is None, else pd.concat([df, processed_df]).    *)
Concat(df, processed_df) ==
    IF df = None THEN processed_df ELSE df \o processed_df

(* The exception of the data store, raised while chunk (or window) c is    *)
(* loaded, the chunks before it having been loaded.                        *)
DataStoreError(c) == [value |-> [failed_at |-> c], raised |-> TRUE]

(* The frames get_df_event and get_df_activity load for a chunk: from the  *)
(* start of its first bin to the end of its last bin.                      *)
ChunkRaises(store, bin_iterator) ==
    LoadRaises(store, bin_iterator[1][1], bin_iterator[Len(bin_iterator)][2])

RECURSIVE ProcessLoop_SkipFailedChunk(_, _, _, _, _)
ProcessLoop_SkipFailedChunk(store, bin_iterators, processed_dfs, c, df) ==
    IF c > Len(bin_iterators)
    THEN IF df = None THEN ValueError ELSE Value(df)
    ELSE IF bin_iterators[c] = <<>> THEN IndexError
    ELSE ProcessLoop_SkipFailedChunk(
             store, bin_iterators, processed_dfs, c + 1,
             IF ChunkRaises(store, bin_iterators[c]) THEN df
             ELSE Concat(df, processed_dfs[c]))

(* The loop of process_event and process_activity over the chunks from     *)
(* chunk c on: the print of a chunk without bins raises IndexError, and    *)
(* the exception of get_df_event or get_df_activity for a chunk ends the   *)
(* call.  processed_dfs[c] is the table of chunk c.                        *)
RECURSIVE ProcessLoop(_, _, _, _, _)
ProcessLoop(store, bin_iterators, processed_dfs, c, df) ==
    IF c > Len(bin_iterators)
    THEN IF df = None THEN ValueError ELSE Value(df)
    ELSE IF bin_iterators[c] = <<>> THEN IndexError
    ELSE IF ChunkRaises(store, bin_iterators[c]) THEN DataStoreError(c)
    ELSE ProcessLoop(store, bin_iterators, processed_dfs, c + 1,
                     Concat(df, processed_dfs[c]))

(* sort_rfid_as_category: the rows as they are, RFID becoming a category   *)
(* whose values are the RFIDs of the rows.                                 *)
sort_rfid_as_category(df) ==
    [rows |-> df, categories |-> {df[k].RFID : k \in 1..Len(df)}]

(* process_event: the table of the event over the chunks of the window.    *)
process_event(self, store, event) ==
    LET bin_iterators == get_bin_iterators_for_processing(self)
        GetDf(bin_iterator) == get_df_event(self, store, event, bin_iterator)
    IN  IF bin_iterators.raised THEN IndexError
        ELSE LET chunks == bin_iterators.value
                 o == ProcessLoop(store, chunks,
                                  [c \in 1..Len(chunks) |-> GetDf(chunks[c])],
                                  1, None)
             IN  IF o.raised THEN o
                 ELSE Value(sort_rfid_as_category(o.value))

(* process_activity: the activity table over the chunks of the window.     *)
process_activity(self, store, filter_flickering, filter_stop) ==
    LET bin_iterators == get_bin_iterators_for_processing(self)
        GetDf(bin_iterator) ==
            get_df_activity(self, store, bin_iterator, filter_flickering,
                            filter_stop)
    IN  IF bin_iterators.raised THEN IndexError
        ELSE LET chunks == bin_iterators.value
                 o == ProcessLoop(store, chunks,
                                  [c \in 1..Len(chunks) |-> GetDf(chunks[c])],
                                  1, None)
             IN  IF o.raised THEN o
                 ELSE Value(sort_rfid_as_category(o.value))

-----------------------------------------------------------------------------
(* Sensors: DataFrameConstructor.calculate_sensors_statistics and          *)
(* get_df_sensors                                                          *)

(* The sensors list of get_df_sensors.                                     *)
Sensors ==
    <<"TEMPERATURE", "HUMIDITY", "SOUND", "LIGHTVISIBLE", "LIGHTVISIBLEANDIR">>

KeyError == [value |-> <<>>, raised |-> TRUE]

RECURSIVE SeqSum(_)
SeqSum(arr) == IF arr = <<>> THEN 0 ELSE Head(arr) + SeqSum(Tail(arr))

(* The dict of statistics of a non-empty arr.  A quotient is the pair of   *)
(* its numerator and denominator; STD and SEM are given by their squares,  *)
(* the variance of arr and the variance over len(arr).                     *)
Statistics(sensor_name, arr) ==
    LET n   == Len(arr)
        sum == SeqSum(arr)
        var == n * SeqSum([k \in 1..n |-> arr[k] * arr[k]]) - sum * sum
    IN  [SENSOR |-> sensor_name,
         MEAN   |-> <<sum, n>>,
         MIN    |-> CHOOSE m \in {arr[k] : k \in 1..n} :
                       \A k \in 1..n : m <= arr[k],
         MAX    |-> CHOOSE m \in {arr[k] : k \in 1..n} :
                       \A k \in 1..n : m >= arr[k],
         STD    |-> IF n > 1 THEN <<var, n * n>> ELSE <<0, 1>>,
         SEM    |-> IF n > 1 THEN <<var, n * n * n>> ELSE <<0, 1>>]

(* The slice sensor_values[i_min : i_max + 1] (indices from 0).            *)
Slice(sensor_values, i_min, i_max) ==
    SubSeq(sensor_values, i_min + 1, Min(i_max + 1, Len(sensor_values)))

(* The for loop of calculate_sensors_statistics from bin b on.  The while  *)
(* loop moves i_max to the first sample at or after f_max, and raises      *)
(* IndexError when there is none; arr.min() of an empty arr raises         *)
(* ValueError.                                                             *)
RECURSIVE StatisticsLoop(_, _, _, _, _, _, _, _)
StatisticsLoop(sensor_name, frame_values, sensor_values, bin_iterator, b, i_min, i_max, results) ==
    IF b > Len(bin_iterator) THEN Value(results)
    ELSE
    LET f_max == bin_iterator[b][2]
        reach == {j \in i_max..(Len(frame_values) - 1) :
                     ~(frame_values[j + 1] < f_max)}
    IN  IF reach = {} THEN IndexError
        ELSE
        LET j   == Least(reach)
            arr == Slice(sensor_values, i_min, j)
        IN  IF arr = <<>> THEN ValueError
            ELSE StatisticsLoop(sensor_name, frame_values, sensor_values,
                                bin_iterator, b + 1, j + 1, j,
                                Append(results, Statistics(sensor_name, arr)))

(* calculate_sensors_statistics(sensor_name, frame_values, sensor_values,  *)
(* bin_iterator).                                                          *)
calculate_sensors_statistics(sensor_name, frame_values, sensor_values, bin_iterator) ==
    StatisticsLoop(sensor_name, frame_values, sensor_values, bin_iterator,
                   1, 0, 0, <<>>)

(* The elements of a set of integers in increasing order.                  *)
Sorted(S) ==
    [k \in 1..Cardinality(S) |->
        CHOOSE x \in S : Cardinality({y \in S : y <= x}) = k]

(* SELECT FRAMENUMBER FROM FRAME WHERE FRAMENUMBER >= lo AND               *)
(* FRAMENUMBER <= hi: the frames of the FRAME table in the range.          *)
SelectFrames(store, lo, hi) ==
    Sorted({f \in store.frames : lo <= f /\ f <= hi})

(* SELECT <sensor> FROM FRAME with the same limits: the value of the       *)
(* sensor at each of these frames.                                         *)
SelectSensor(store, sensor, lo, hi) ==
    LET frames == SelectFrames(store, lo, hi)
    IN  [k \in 1..Len(frames) |-> store.sensor_value[sensor][frames[k]]]

(* "for sensor in sensors: if sensor not in sensors_data:                  *)
(* sensors.remove(sensor)", the loop being at position i (from 1) of the   *)
(* list it removes from.                                                   *)
RECURSIVE RemoveLoop(_, _, _)
RemoveLoop(sensors, i, sensors_data) ==
    IF i > Len(sensors) THEN sensors
    ELSE IF sensors[i] \notin sensors_data
    THEN RemoveLoop(SubSeq(sensors, 1, i - 1)
                        \o SubSeq(sensors, i + 1, Len(sensors)),
                    i + 1, sensors_data)
    ELSE RemoveLoop(sensors, i + 1, sensors_data)

(* get_df_sensors(bin_iterator): None when no sensor can be read, else one *)
(* row per bin, its sensor columns being the statistics of the sensors     *)
(* left in the list.  A sensor is skipped when its SELECT fails or when    *)
(* calculate_sensors_statistics raises.                                    *)
get_df_sensors(self, store, bin_iterator_arg) ==
    LET given == IF bin_iterator_arg = None
                 THEN DPB_get_bin_iterator(self)
                 ELSE Value(Val(bin_iterator_arg))
        bin_iterator == given.value
    IN  IF given.raised \/ bin_iterator = <<>> THEN IndexError
        ELSE
        LET lo == bin_iterator[1][1]
            hi == bin_iterator[Len(bin_iterator)][2]
            frames == SelectFrames(store, lo, hi)
            stats == [k \in 1..Len(Sensors) |->
                         calculate_sensors_statistics(
                             Sensors[k], frames,
                             SelectSensor(store, Sensors[k], lo, hi),
                             bin_iterator)]
            sensors_data == {Sensors[k] : k \in
                               {k \in 1..Len(Sensors) :
                                   /\ Sensors[k] \notin store.unreadable
                                   /\ ~stats[k].raised}}
            StatsOf(sensor) ==
                stats[CHOOSE k \in 1..Len(Sensors) : Sensors[k] = sensor]
        IN  IF sensors_data = {} THEN Value(None)
            ELSE
            LET sensors == RemoveLoop(Sensors, 1, sensors_data)
                columns == {sensors[k] : k \in 1..Len(sensors)}
            IN  IF columns \ sensors_data # {} THEN KeyError
                ELSE Value(Some(
                    [i \in 1..Len(bin_iterator) |->
                        [START_FRAME |-> bin_iterator[i][1],
                         END_FRAME   |-> bin_iterator[i][2],
                         START_TIME  |-> frame_to_time(self,
                                             bin_iterator[i][1]),
                         END_TIME    |-> frame_to_time(self,
                                             bin_iterator[i][2]),
                         SENSORS     |-> [sensor \in columns |->
                                            StatsOf(sensor).value[i]]]]))

-----------------------------------------------------------------------------
(* Construction                                                            *)

(* The fields of a binner before __init__ has assigned them.               *)
Unset(cls, last_frame, last_timestamp) ==
    [cls            |-> cls,
     last_frame     |-> last_frame,
     last_timestamp |-> last_timestamp,
     fps            |-> oneSecond,
     bin_0          |-> Bin0(last_timestamp, last_frame, oneSecond),
     bin_size       |-> 0,
     chunk_size     |-> 0,
     start_frame    |-> 0,
     end_frame      |-> 0,
     bin_df         |-> <<>>,
     chunk_df       |-> <<>>]

(* Binner.__init__(last_frame, last_timestamp, fps, bin_size, start_frame, *)
(* end_frame).                                                             *)
Binner_init(last_frame, last_timestamp, r, bin_size, start_frame, end_frame, tie) ==
    Binner_set_parameters(Unset("Binner", last_frame, last_timestamp),
                          Some(bin_size), start_frame, end_frame, r, tie)

(* DataProcessingBinner.__init__(last_frame, last_timestamp, bin_size,     *)
(* chunk_size, start_frame, end_frame).                                    *)
DPB_init(last_frame, last_timestamp, bin_size, chunk_size, start_frame, end_frame, tie) ==
    DPB_set_parameters(
        Unset("DataProcessingBinner", last_frame, last_timestamp),
        Some(bin_size), Some(chunk_size), start_frame, end_frame, tie)

-----------------------------------------------------------------------------
(* EventsRebuilder                                                         *)

(* The names of the events that exist for LMT: the keys of ALL_EVENTS.     *)
ALL_EVENTS == {"Flickering", "Stop", "Stop in contact", "Stop isolated"}

(* get_modules: the modules that build the events of the list, a module    *)
(* being named by the event it builds.                                     *)
get_modules(list_events) == list_events \cap ALL_EVENTS

(* RebuildOption.                                                          *)
RebuildOption == {"NO_REBUILD", "ALL", "MISSING", "ANALYSIS", "CUSTOM"}

(* get_missing_events_in_database: set(self.list_events) minus the events  *)
(* of the EVENT table.  A list of events is modelled by the set of its     *)
(* names.                                                                  *)
get_missing_events_in_database(self) ==
    self.list_events \ self.database_events

(* set_events_to_rebuild(list_events).                                     *)
set_events_to_rebuild(self, list_events) ==
    LET given   == IF /\ self.rebuild_option \in {"CUSTOM", "ANALYSIS"}
                      /\ list_events # None
                   THEN [self EXCEPT !.list_events = Val(list_events)]
                   ELSE self
        missing == IF given.rebuild_option = "MISSING"
                   THEN [given EXCEPT !.list_events =
                             get_missing_events_in_database(given)]
                   ELSE given
        all     == IF missing.rebuild_option = "ALL"
                   THEN [missing EXCEPT !.list_events = ALL_EVENTS]
                   ELSE missing
    IN  [all EXCEPT !.list_BuildEvent = get_modules(all.list_events)]

(* set_rebuild_option(rebuild_option).                                     *)
set_rebuild_option(self, rebuild_option) ==
    set_events_to_rebuild([self EXCEPT !.rebuild_option = rebuild_option],
                          None)

(* EventsRebuilder.__init__, up to the construction of the binner: conn is *)
(* the database, the names of its EVENT table and the frames it fails to   *)
(* read.                                                                   *)
EventsRebuilder_init(conn, rebuild_option, list_events) ==
    LET self == [cls             |-> "EventsRebuilder",
                 conn            |-> conn,
                 database_events |-> conn.events,
                 list_events     |-> {},
                 rebuild_option  |-> rebuild_option,
                 list_BuildEvent |-> {}]
    IN  set_events_to_rebuild(set_rebuild_option(self, rebuild_option),
                              list_events)

(* The binner of an EventsRebuilder: _init_binner, then                    *)
(* set_processing_window and set_analysis_limits, which call               *)
(* set_parameters without fps.  ties are the ways round() goes in the      *)
(* three calls.                                                            *)
init_binner(last_frame, last_timestamp, tie) ==
    Binner_init(last_frame, last_timestamp, oneSecond, 15 * oneMinute,
                None, None, tie)

set_processing_window(binner_, processing_window, tie) ==
    Binner_set_parameters(binner_, Some(processing_window), None, None,
                          oneSecond, tie)

set_analysis_limits(binner_, start, end, tie) ==
    Binner_set_parameters(binner_, None, start, end, oneSecond, tie)

(* rebuild_window raises when the database fails to read a frame of the    *)
(* window (CheckWrongAnimal.check, loadDetection, reBuildEvent).           *)
WindowRaises(self, window) == LoadRaises(self.conn, window[1], window[2])

RECURSIVE RebuildLoop_SkipFailedWindow(_, _, _, _)
RebuildLoop_SkipFailedWindow(self, windows, k, rebuilt) ==
    IF k > Len(windows) THEN Value(rebuilt)
    ELSE RebuildLoop_SkipFailedWindow(
             self, windows, k + 1,
             IF WindowRaises(self, windows[k]) THEN rebuilt
             ELSE Append(rebuilt, windows[k]))

(* The loop of rebuild over the windows from window k on; rebuilt is the   *)
(* sequence of the windows rebuild_window has rebuilt.                     *)
RECURSIVE RebuildLoop(_, _, _, _)
RebuildLoop(self, windows, k, rebuilt) ==
    IF k > Len(windows) THEN Value(rebuilt)
    ELSE IF WindowRaises(self, windows[k]) THEN DataStoreError(k)
    ELSE RebuildLoop(self, windows, k + 1, Append(rebuilt, windows[k]))

(* rebuild: nothing when there is no module to run; else the events of     *)
(* the modules are flushed and rebuilt window by window.  Whatever is      *)
(* raised inside the try block is logged and Exception() is raised.        *)
rebuild(self, binner_) ==
    IF self.list_BuildEvent = {}
    THEN Value([events |-> {}, windows |-> <<>>])
    ELSE LET it == Binner_get_bin_iterator(binner_)
         IN  IF it.raised THEN [value |-> [failed_at |-> 0], raised |-> TRUE]
             ELSE LET o == RebuildLoop(self, it.value, 1, <<>>)
                  IN  IF o.raised THEN [value |-> o.value, raised |-> TRUE]
                      ELSE Value([events  |-> self.list_BuildEvent,
                                  windows |-> o.value])

-----------------------------------------------------------------------------
(* LMTAnalyser                                                             *)

(* set_filters(flickering, stop).                                          *)
LMTAnalyser_set_filters(self, flickering, stop) ==
    [self EXCEPT !.filter_flickering = flickering, !.filter_stop = stop]

(* set_events_to_analyse(event_list): a new list, filled from the filters; *)
(* event_list is not read.                                                 *)
LMTAnalyser_set_events_to_analyse(self, event_list) ==
    LET flickering == IF self.filter_flickering THEN <<"Flickering">>
                      ELSE <<>>
        stop       == IF self.filter_stop
                      THEN <<"Stop", "Stop in contact", "Stop isolated">>
                      ELSE <<>>
    IN  [self EXCEPT !.events_to_analyse = flickering \o stop]

(* set_rebuild_option(rebuild_option): under ANALYSIS events_to_rebuild is *)
(* the list events_to_analyse names at the time of the call.               *)
LMTAnalyser_set_rebuild_option(self, rebuild_option) ==
    [self EXCEPT
        !.rebuild_option = rebuild_option,
        !.events_to_rebuild =
            IF rebuild_option = "NO_REBUILD" THEN None
            ELSE IF rebuild_option = "ANALYSIS"
            THEN Some(self.events_to_analyse)
            ELSE IF rebuild_option = "MISSING" THEN Some(<<"auto_missing">>)
            ELSE IF rebuild_option = "ALL" THEN Some(<<"auto_all">>)
            ELSE Some(<<>>)]

(* set_night_hours(night_begin, night_duration).                           *)
LMTAnalyser_set_night_hours(self, night_begin, night_duration) ==
    [self EXCEPT !.night_begin = night_begin,
                 !.night_duration = night_duration]

(* LMTAnalyser.__init__(night_begin, night_duration, filter_flickering,    *)
(* filter_stop, events_to_analyse, rebuild_option).                        *)
LMTAnalyser_init(night_begin, night_duration, filter_flickering, filter_stop, events_to_analyse, rebuild_option) ==
    LET self == [cls               |-> "LMTAnalyser",
                 night_begin       |-> night_begin,
                 night_duration    |-> night_duration,
                 filter_flickering |-> filter_flickering,
                 filter_stop       |-> filter_stop,
                 events_to_analyse |-> <<>>,
                 rebuild_option    |-> rebuild_option,
                 events_to_rebuild |-> None]
    IN  LMTAnalyser_set_rebuild_option(
            LMTAnalyser_set_events_to_analyse(self, events_to_analyse),
            rebuild_option)

-----------------------------------------------------------------------------
(* draw_nights (plotting_functions)                                        *)

(* Instants are whole quarters of an hour since midnight of the first day. *)
QuartersPerHour == 4
HoursPerDay == 24

Hours(n) == n * QuartersPerHour

(* Timestamp.hour, Timestamp.floor("1h") and Timestamp.replace(hour=...).  *)
HourOf(t) == (t \div QuartersPerHour) % HoursPerDay
FloorHour(t) == t - (t % QuartersPerHour)
ReplaceHour(t, hour) ==
    t - Hours(HourOf(t)) + Hours(hour)

(* draw_nights up to the loop: the hour cursor h, the start of the night   *)
(* that may be under way at start_time, the length of a night, and the     *)
(* rectangles added to the figure.                                         *)
draw_nights(start_time, end_time, night_begin, night_duration) ==
    LET h       == FloorHour(start_time)
        start_h == ReplaceHour(h, night_begin)
    IN  [cls         |-> "draw_nights",
         pc          |-> "while",
         start_time  |-> start_time,
         end_time    |-> end_time,
         night_begin |-> night_begin,
         h           |-> h,
         start_h     |-> IF HourOf(start_time) < night_begin
                         THEN start_h - Hours(HoursPerDay) ELSE start_h,
         delta_h     |-> Hours(night_duration),
         first_night |-> TRUE,
         vrects      |-> {},
         iterations  |-> 0]

(* One evaluation of the condition of the loop and, if it holds, one       *)
(* iteration of its body; else the return.  iterations is the parity of    *)
(* the number of iterations done.                                          *)
draw_nights_while(self) ==
    IF ~(self.h < self.end_time) THEN [self EXCEPT !.pc = "done"]
    ELSE IF HourOf(self.h) = self.night_begin
    THEN [self EXCEPT
             !.iterations = (@ + 1) % 2,
             !.vrects = @ \cup {<<self.h,
                                  Min(self.h + self.delta_h, self.end_time)>>},
             !.h = @ + self.delta_h]
    ELSE IF /\ self.first_night
            /\ self.h > self.start_h
            /\ self.h < self.start_h + self.delta_h
    THEN [self EXCEPT
             !.iterations = (@ + 1) % 2,
             !.first_night = FALSE,
             !.vrects = @ \cup {<<self.start_time,
                                  Min(self.start_h + self.delta_h,
                                      self.end_time)>>}]
    ELSE [self EXCEPT !.iterations = (@ + 1) % 2, !.h = @ + Hours(1)]

-----------------------------------------------------------------------------
(* The recordings and the arguments the model draws from                   *)

(* Frames added to each recording length, so that the instant of frame 0   *)
(* takes every sub-millisecond phase.                                      *)
MaxExtraFrames == 2

(* Milliseconds after a quarter of an hour at which frame 0 may fall.      *)
MaxLateMs == 1

QuarterMs == 15 * 60 * MsPerSecond

Lengths(base) == {l + j : l \in base, j \in 0..MaxExtraFrames}

(* The instant of frame 0, in whole milliseconds after a quarter of an     *)
(* hour: on it or just after it, within a frame before it (where round()   *)
(* may sit on a tie), in the middle of a quarter, and 5001 frames of a     *)
(* thirtieth of a second before it.                                        *)
StartOffsetsMs ==
    (0..MaxLateMs) \cup {20, 7 * 60 * MsPerSecond + 321}
    \cup {QuarterMs - e : e \in {10, 16, 17, 50, 166700}}

(* The TIMESTAMP of the last frame of a recording whose frame 0 falls      *)
(* (less than a millisecond before) offset ms after the reference.         *)
LastTimestampFor(last_frame, offset) ==
    (last_frame * FramePeriod(oneSecond)) \div TicksPerMs + offset

Opt(S) == {None} \cup {Some(x) : x \in S}

(* The ways round() can go in calculate_bin_df once bin_size and fps are   *)
(* set as the call asks: both ways on a tie, else one.                     *)
Ties(self, bin_size, r) ==
    LET s == [self EXCEPT
                 !.fps = r,
                 !.bin_0 = Bin0(self.last_timestamp, self.last_frame, r),
                 !.bin_size = IF bin_size = None THEN @ ELSE Val(bin_size)]
    IN  IF s.bin_size \div (60 * r) # 0
           /\ StartFrameBin1(s, 0) # StartFrameBin1(s, 1)
        THEN {0, 1} ELSE {0}

(* The data stores: one with two animals whose events fall inside a bin,   *)
(* across the end of a bin and across the end of a chunk, one with one     *)
(* animal and no event, and one with one animal whose Stop and Move        *)
(* isolated events overlap over more than a bin.                           *)
EventNames == {"Stop", "Move isolated", "Move in contact"}

Stores ==
    {[animals |-> <<2, 1>>,
      broken  |-> {},
      events  |-> [e \in EventNames |->
                    IF e = "Stop"
                    THEN <<{<<31000, 31999>>, <<107990, 108010>>},
                           {<<100, 200>>, <<26990, 27010>>,
                            <<134000, 136000>>}>>
                    ELSE IF e = "Move isolated"
                    THEN <<{<<100, 300>>}, {<<150, 400>>}>>
                    ELSE <<{<<250, 350>>}, {}>>]],
     [animals |-> <<1>>,
      broken  |-> {},
      events  |-> [e \in EventNames |-> <<{}>>]],
     [animals |-> <<1>>,
      broken  |-> {},
      events  |-> [e \in EventNames |->
                    IF e = "Move in contact" THEN <<{}>>
                    ELSE <<{<<50000, 90000>>}>>]]}

(* The argument sets of one specification.                                 *)
MainArgs ==
    [last_frames   |-> Lengths({3 * oneHour}),
     offsets       |-> {0, 20, QuarterMs - 10, QuarterMs - 16},
     rates         |-> {oneSecond},
     bin_sizes     |-> {15 * oneMinute, 30 * oneMinute},
     chunk_sizes   |-> {oneHour + 1, 75 * oneMinute},
     split_sizes   |-> {15 * oneMinute, oneHour, oneHour + 1},
     start_frames  |-> {None, Some(15 * oneMinute - 1), Some(40000)},
     end_frames    |-> {None, Some(2 * oneHour - 1), Some(oneHour + 5000)}]

(* Short recordings, every phase of frame 0, every sampling rate.          *)
TableArgs ==
    [last_frames   |-> Lengths({5000, 2 * 15 * oneMinute}),
     offsets       |-> StartOffsetsMs,
     rates         |-> FPSValues,
     bin_sizes     |-> {oneMinute, 2000, 15 * oneMinute, 30 * oneMinute},
     chunk_sizes   |-> {oneHour + 1},
     split_sizes   |-> {oneHour},
     start_frames  |-> {None},
     end_frames    |-> {None}]

(* Scenarios A, B and C: recordings of one day and of three days at 30     *)
(* frames per second, frame 0 at midnight.                                 *)
ScenarioArgs ==
    [last_frames   |-> {oneDay, 3 * oneDay},
     offsets       |-> {0},
     rates         |-> {oneSecond},
     bin_sizes     |-> {15 * oneMinute},
     chunk_sizes   |-> {oneDay},
     split_sizes   |-> {oneDay},
     start_frames  |-> {None, Some(15 * oneMinute), Some(oneDay \div 2)},
     end_frames    |-> {None, Some(oneDay - 1), Some(oneHour)}]

(* The parameter checks: every kind of window and the sizes on either side *)
(* of one minute and of one hour, on a short recording.                    *)
WindowArgs ==
    [last_frames   |-> {5000},
     offsets       |-> {0},
     rates         |-> {25, oneSecond},
     bin_sizes     |-> {oneMinute - 1, oneMinute, 2000, 2 * oneHour},
     chunk_sizes   |-> {oneHour - 1, oneHour, oneHour + 1, 2 * oneHour},
     split_sizes   |-> {oneHour},
     start_frames  |-> {None, Some(-5), Some(0), Some(3000), Some(5001)},
     end_frames    |-> {None, Some(0), Some(2000), Some(3000), Some(5001)}]

(* The clock conversions at every sampling rate.                           *)
ClockArgs ==
    [last_frames   |-> Lengths({5000}),
     offsets       |-> {0, 20, QuarterMs - 16},
     rates         |-> FPSValues,
     bin_sizes     |-> {15 * oneMinute},
     chunk_sizes   |-> {oneHour + 1},
     split_sizes   |-> {oneHour},
     start_frames  |-> {None},
     end_frames    |-> {None}]

(* Sensors: a recording of MaxSensorFrame frames.  Its FRAME table has a   *)
(* row for every frame, or for every frame but one (a gap); any of the     *)
(* sensor columns may be missing from it.                                  *)
MaxSensorFrame == 6

SensorArgs ==
    [last_frames   |-> {MaxSensorFrame},
     offsets       |-> {0, 20},
     rates         |-> {oneSecond},
     bin_sizes     |-> {15 * oneMinute},
     chunk_sizes   |-> {oneHour + 1},
     split_sizes   |-> {oneHour},
     start_frames  |-> {None},
     end_frames    |-> {None}]

SensorNames == {Sensors[k] : k \in 1..Len(Sensors)}

SensorValue(sensor, f) ==
    f * f + (CHOOSE k \in 1..Len(Sensors) : Sensors[k] = sensor)

SensorStores(last_frame) ==
    {[frames       |-> (1..last_frame) \ gap,
      unreadable   |-> U,
      sensor_value |-> [sensor \in SensorNames |->
                          [f \in 1..last_frame |-> SensorValue(sensor, f)]]] :
        gap \in {{}} \cup {{g} : g \in 1..(last_frame - 1)},
        U \in SUBSET SensorNames}

(* Runs over the chunks and the windows of a recording of three hours.     *)
RunArgs ==
    [last_frames   |-> {3 * oneHour},
     offsets       |-> {0},
     rates         |-> {oneSecond},
     bin_sizes     |-> {15 * oneMinute, 30 * oneMinute},
     chunk_sizes   |-> {oneHour + 1, 75 * oneMinute},
     split_sizes   |-> {oneHour},
     start_frames  |-> {None, Some(40000)},
     end_frames    |-> {None, Some(oneHour + 5000)}]

(* The frames a store or a database fails to read: none, one in the first  *)
(* hour, one in the second hour, one in the second and one in the third.   *)
BrokenFrames == {{}, {50000}, {140000}, {140000, 300000}}

(* The data stores, with the frames they fail to read.                     *)
FailingStores ==
    {[store EXCEPT !.broken = B] : store \in Stores, B \in BrokenFrames}

(* The databases of an EventsRebuilder: the names of the EVENT table and   *)
(* the frames that fail to be read.                                        *)
Databases ==
    {[events |-> E, broken |-> B] :
        E \in {{}, {"Stop"}, {"Stop", "Flickering", "Detection"}, ALL_EVENTS},
        B \in BrokenFrames}

(* The lists of events given to an EventsRebuilder.                        *)
EventLists ==
    {{}, {"Stop"}, {"Flickering", "Stop in contact"}, ALL_EVENTS}

(* The processing windows given to an EventsRebuilder.                     *)
ProcessingWindows == {oneHour, oneDay}

(* The night hours given to an LMTAnalyser: every hour of the day, and     *)
(* nights of no hour, of one hour, of half a day, of a day and of more.    *)
NightBegins == 0..(HoursPerDay - 1)
NightDurations == {0, 1, 12, 24, 25}

(* The plots: from midnight, from 07:30, from 20:45 or from 23:45 of the   *)
(* first day up to at most MaxPlotDays days later.                         *)
MaxPlotDays == 2

PlotStarts == {0, Hours(7) + 2, Hours(20) + 3, Hours(23) + 3}
PlotEnds(start_time) ==
    {start_time + d : d \in {1, Hours(5), Hours(HoursPerDay) + 1,
                             Hours(MaxPlotDays * HoursPerDay)}}

(* The contiguous bin iterators over the frames 1..n: the bins end at the  *)
(* frames of cuts and at n.                                                *)
BinIteratorOf(cuts, n) ==
    LET ends == Sorted(cuts \cup {n})
    IN  [k \in 1..Len(ends) |->
            <<IF k = 1 THEN 1 ELSE ends[k - 1] + 1, ends[k]>>]

BinIterators(n) == {BinIteratorOf(cuts, n) : cuts \in SUBSET (1..(n - 1))}

(* The frames the clock is asked about: the first MaxClockFrames of the    *)
(* recording and its last MaxClockFrames.                                  *)
MaxClockFrames == 20

ClockFrames(self) ==
    {f \in 1..self.last_frame :
        f <= MaxClockFrames \/ f > self.last_frame - MaxClockFrames}

-----------------------------------------------------------------------------
(* State: the binner object, whether the last set_parameters call on it    *)
(* raised (the object then keeps what the call assigned before raising),   *)
(* and what the last call of a getter returned.                            *)

NoCall == [op |-> "none", raised |-> FALSE, value |-> <<>>, arg |-> <<>>]

(* An object the program has not constructed.                              *)
Absent == [cls |-> "none"]

Call(op, arg, result) ==
    [op |-> op, raised |-> result.raised, value |-> result.value, arg |-> arg]

InitBinner(A) ==
    \E last_frame \in A.last_frames, offset \in A.offsets, r \in A.rates,
       bin_size \in A.bin_sizes, tie \in {0, 1} :
        LET o == Binner_init(last_frame,
                             LastTimestampFor(last_frame, offset), r,
                             bin_size, None, None, tie)
        IN  /\ ~o.raised
            /\ binner = o.self

InitDPB(A) ==
    \E last_frame \in A.last_frames, offset \in A.offsets,
       bin_size \in A.bin_sizes, chunk_size \in A.chunk_sizes,
       tie \in {0, 1} :
        LET o == DPB_init(last_frame, LastTimestampFor(last_frame, offset),
                          bin_size, chunk_size, None, None, tie)
        IN  /\ ~o.raised
            /\ binner = o.self

InitWith(A) ==
    /\ InitBinner(A) \/ InitDPB(A)
    /\ raised = FALSE
    /\ ret = NoCall
    /\ rebuilder = Absent
    /\ analyser = Absent
    /\ nights = Absent

(* A set_parameters call returns nothing: ret keeps the arguments of the   *)
(* call and whether it raised.  Every call is taken once the caller has    *)
(* dropped the last returned value (Return).                               *)
BinnerSetParameters(A) ==
    /\ binner.cls = "Binner"
    /\ ret.op = "none"
    /\ \E bin_size \in Opt(A.bin_sizes), r \in A.rates :
       \E start_frame \in A.start_frames, end_frame \in A.end_frames,
          tie \in Ties(binner, bin_size, r) :
        LET o == Binner_set_parameters(binner, bin_size, start_frame,
                                       end_frame, r, tie)
        IN  /\ binner' = o.self
            /\ raised' = o.raised
            /\ ret' = Call("set_parameters",
                           <<bin_size, None, start_frame, end_frame, r>>,
                           [value |-> <<>>, raised |-> o.raised])
    /\ UNCHANGED <<rebuilder, analyser, nights>>

DPBSetParameters(A) ==
    /\ binner.cls = "DataProcessingBinner"
    /\ ret.op = "none"
    /\ \E bin_size \in Opt(A.bin_sizes), chunk_size \in Opt(A.chunk_sizes) :
       \E start_frame \in A.start_frames, end_frame \in A.end_frames,
          tie \in Ties(binner, bin_size, binner.fps) :
        LET o == DPB_set_parameters(binner, bin_size, chunk_size,
                                    start_frame, end_frame, tie)
        IN  /\ binner' = o.self
            /\ raised' = o.raised
            /\ ret' = Call("set_parameters",
                           <<bin_size, chunk_size, start_frame, end_frame,
                             binner.fps>>,
                           [value |-> <<>>, raised |-> o.raised])
    /\ UNCHANGED <<rebuilder, analyser, nights>>

BinnerGetBinIterator ==
    /\ binner.cls = "Binner"
    /\ ret.op = "none"
    /\ ret' = Call("get_bin_iterator", <<>>, Binner_get_bin_iterator(binner))
    /\ UNCHANGED <<binner, raised, rebuilder, analyser, nights>>

DPBGetBinIterator ==
    /\ binner.cls = "DataProcessingBinner"
    /\ ret.op = "none"
    /\ ret' = Call("get_bin_iterator", <<>>, DPB_get_bin_iterator(binner))
    /\ UNCHANGED <<binner, raised, rebuilder, analyser, nights>>

(* split_iterator_in_chunks is given a bin iterator that get_bin_iterator  *)
(* returned.                                                               *)
SplitIteratorInChunks(A) ==
    /\ binner.cls = "Binner"
    /\ ret.op = "get_bin_iterator"
    /\ ~ret.raised
    /\ \E chunk_size \in A.split_sizes :
        ret' = Call("split_iterator_in_chunks", <<chunk_size, ret.value>>,
                    split_iterator_in_chunks(chunk_size, ret.value))
    /\ UNCHANGED <<binner, raised, rebuilder, analyser, nights>>

GetBinIteratorsForProcessing ==
    /\ binner.cls = "DataProcessingBinner"
    /\ ret.op = "none"
    /\ ret' = Call("get_bin_iterators_for_processing", <<>>,
                   get_bin_iterators_for_processing(binner))
    /\ UNCHANGED <<binner, raised, rebuilder, analyser, nights>>

FrameToTime ==
    /\ ret.op = "none"
    /\ \E framenumber \in ClockFrames(binner) :
        ret' = Call("frame_to_time", <<framenumber>>,
                    Value(frame_to_time(binner, framenumber)))
    /\ UNCHANGED <<binner, raised, rebuilder, analyser, nights>>

(* time_to_frame is given an instant that frame_to_time returned.          *)
TimeToFrame ==
    /\ ret.op = "frame_to_time"
    /\ \E tie \in {0, 1} :
        ret' = Call("time_to_frame", <<ret.value, ret.arg[1]>>,
                    Value(time_to_frame(binner, ret.value, tie)))
    /\ UNCHANGED <<binner, raised, rebuilder, analyser, nights>>

ProcessEvent ==
    /\ binner.cls = "DataProcessingBinner"
    /\ ret.op = "none"
    /\ \E store \in Stores, event \in {"Stop", "Move in contact"} :
        ret' = Call("process_event", <<store, event>>,
                    process_event(binner, store, event))
    /\ UNCHANGED <<binner, raised, rebuilder, analyser, nights>>

ProcessActivity ==
    /\ binner.cls = "DataProcessingBinner"
    /\ ret.op = "none"
    /\ \E store \in Stores, filter_flickering \in {FALSE},
          filter_stop \in BOOLEAN :
        ret' = Call("process_activity",
                    <<store, filter_flickering, filter_stop>>,
                    process_activity(binner, store, filter_flickering,
                                     filter_stop))
    /\ UNCHANGED <<binner, raised, rebuilder, analyser, nights>>

(* calculate_sensors_statistics is given the samples of any increasing     *)
(* sequence of frames of the recording and a contiguous bin iterator over  *)
(* the recording.                                                          *)
CalculateSensorsStatistics ==
    /\ binner.cls = "DataProcessingBinner"
    /\ ret.op = "none"
    /\ \E sensor_name \in {"TEMPERATURE", "SOUND"},
          sampled \in SUBSET (1..binner.last_frame),
          bin_iterator \in BinIterators(binner.last_frame) :
        LET frame_values  == Sorted(sampled)
            sensor_values == [k \in 1..Len(frame_values) |->
                                 SensorValue(sensor_name, frame_values[k])]
        IN  ret' = Call("calculate_sensors_statistics",
                        <<sensor_name, frame_values, sensor_values,
                          bin_iterator>>,
                        calculate_sensors_statistics(
                            sensor_name, frame_values, sensor_values,
                            bin_iterator))
    /\ UNCHANGED <<binner, raised, rebuilder, analyser, nights>>

GetDfSensors ==
    /\ binner.cls = "DataProcessingBinner"
    /\ ret.op = "none"
    /\ \E store \in SensorStores(binner.last_frame),
          bin_iterator \in Opt(BinIterators(binner.last_frame)) :
        ret' = Call("get_df_sensors", <<store, bin_iterator>>,
                    get_df_sensors(binner, store, bin_iterator))
    /\ UNCHANGED <<binner, raised, rebuilder, analyser, nights>>

(* process_event and process_activity on a data store that fails to read  *)
(* some frames.                                                            *)
ProcessEventFailing ==
    /\ binner.cls = "DataProcessingBinner"
    /\ ret.op = "none"
    /\ \E store \in FailingStores, event \in {"Stop"} :
        ret' = Call("process_event", <<store, event>>,
                    process_event(binner, store, event))
    /\ UNCHANGED <<binner, raised, rebuilder, analyser, nights>>

ProcessActivityFailing ==
    /\ binner.cls = "DataProcessingBinner"
    /\ ret.op = "none"
    /\ \E store \in FailingStores, filter_stop \in BOOLEAN :
        ret' = Call("process_activity", <<store, FALSE, filter_stop>>,
                    process_activity(binner, store, FALSE, filter_stop))
    /\ UNCHANGED <<binner, raised, rebuilder, analyser, nights>>

(* EventsRebuilder(connection, file, rebuild_option, list_events,          *)
(* processing_window, start, end): ret records the arguments of the        *)
(* construction until the caller goes on.                                  *)
InitRebuilder(A) ==
    \E last_frame \in A.last_frames, offset \in A.offsets,
       conn \in Databases, rebuild_option \in RebuildOption,
       list_events \in Opt(EventLists),
       processing_window \in ProcessingWindows,
       start \in A.start_frames, end \in A.end_frames,
       t1 \in {0, 1}, t2 \in {0, 1}, t3 \in {0, 1} :
        LET b1 == init_binner(last_frame,
                              LastTimestampFor(last_frame, offset), t1)
            b2 == set_processing_window(b1.self, processing_window, t2)
            b3 == set_analysis_limits(b2.self, start, end, t3)
        IN  /\ ~b1.raised /\ ~b2.raised /\ ~b3.raised
            /\ binner = b3.self
            /\ rebuilder = EventsRebuilder_init(conn, rebuild_option,
                                                list_events)
            /\ ret = Call("EventsRebuilder",
                          <<rebuild_option, list_events, processing_window,
                            start, end>>,
                          Value(<<>>))

RebuilderSetRebuildOption ==
    /\ rebuilder.cls = "EventsRebuilder"
    /\ ret.op = "none"
    /\ \E rebuild_option \in RebuildOption :
        /\ rebuilder' = set_rebuild_option(rebuilder, rebuild_option)
        /\ ret' = Call("set_rebuild_option", <<rebuild_option>>, Value(<<>>))
    /\ UNCHANGED <<binner, raised, analyser, nights>>

RebuilderSetEventsToRebuild ==
    /\ rebuilder.cls = "EventsRebuilder"
    /\ ret.op = "none"
    /\ \E list_events \in Opt(EventLists) :
        /\ rebuilder' = set_events_to_rebuild(rebuilder, list_events)
        /\ ret' = Call("set_events_to_rebuild", <<list_events>>,
                       Value(<<>>))
    /\ UNCHANGED <<binner, raised, analyser, nights>>

Rebuild ==
    /\ rebuilder.cls = "EventsRebuilder"
    /\ ret.op = "none"
    /\ ret' = Call("rebuild", <<>>, rebuild(rebuilder, binner))
    /\ UNCHANGED <<binner, raised, rebuilder, analyser, nights>>

(* The construction of an LMTAnalyser, with the default night hours.       *)
InitAnalyser ==
    \E filter_flickering \in BOOLEAN, filter_stop \in BOOLEAN,
       events_to_analyse \in Opt(EventLists),
       rebuild_option \in RebuildOption :
        /\ analyser = LMTAnalyser_init(20, 12, filter_flickering,
                                       filter_stop, events_to_analyse,
                                       rebuild_option)
        /\ ret = Call("LMTAnalyser",
                      <<filter_flickering, filter_stop, events_to_analyse,
                        rebuild_option>>,
                      Value(<<>>))

AnalyserSetFilters ==
    /\ analyser.cls = "LMTAnalyser"
    /\ ret.op = "none"
    /\ \E flickering \in BOOLEAN, stop \in BOOLEAN :
        /\ analyser' = LMTAnalyser_set_filters(analyser, flickering, stop)
        /\ ret' = Call("set_filters", <<flickering, stop>>, Value(<<>>))
    /\ UNCHANGED <<binner, raised, rebuilder, nights>>

AnalyserSetEventsToAnalyse ==
    /\ analyser.cls = "LMTAnalyser"
    /\ ret.op = "none"
    /\ \E event_list \in Opt(EventLists) :
        /\ analyser' = LMTAnalyser_set_events_to_analyse(analyser, event_list)
        /\ ret' = Call("set_events_to_analyse", <<event_list>>, Value(<<>>))
    /\ UNCHANGED <<binner, raised, rebuilder, nights>>

AnalyserSetRebuildOption ==
    /\ analyser.cls = "LMTAnalyser"
    /\ ret.op = "none"
    /\ \E rebuild_option \in RebuildOption :
        /\ analyser' = LMTAnalyser_set_rebuild_option(analyser,
                                                      rebuild_option)
        /\ ret' = Call("set_rebuild_option", <<rebuild_option>>, Value(<<>>))
    /\ UNCHANGED <<binner, raised, rebuilder, nights>>

AnalyserSetNightHours ==
    /\ analyser.cls = "LMTAnalyser"
    /\ ret.op = "none"
    /\ nights = Absent
    /\ \E night_begin \in NightBegins, night_duration \in NightDurations :
        /\ analyser' = LMTAnalyser_set_night_hours(analyser, night_begin,
                                                   night_duration)
        /\ ret' = Call("set_night_hours", <<night_begin, night_duration>>,
                       Value(<<>>))
    /\ UNCHANGED <<binner, raised, rebuilder, nights>>

(* A report calls draw_nights with the night hours of the analyser.        *)
DrawNights ==
    /\ analyser.cls = "LMTAnalyser"
    /\ ret.op = "none"
    /\ nights = Absent
    /\ \E start_time \in PlotStarts :
       \E end_time \in PlotEnds(start_time) :
        nights' = draw_nights(start_time, end_time, analyser.night_begin,
                              analyser.night_duration)
    /\ UNCHANGED <<binner, raised, ret, rebuilder, analyser>>

(* The loop of draw_nights; when the loop ends the call is over and        *)
(* returns the figure, here the tuple of its set of rectangles.            *)
DrawNightsWhile ==
    /\ nights.cls = "draw_nights"
    /\ LET o == draw_nights_while(nights)
       IN  /\ nights' = IF o.pc = "done" THEN Absent ELSE o
           /\ ret' = IF o.pc = "done"
                     THEN Call("draw_nights",
                               <<nights.start_time, nights.end_time,
                                 nights.night_begin, nights.delta_h>>,
                               Value(<<o.vrects>>))
                     ELSE ret
    /\ UNCHANGED <<binner, raised, rebuilder, analyser>>

(* The caller drops the value the last call returned.                      *)
Return ==
    /\ ret.op # "none"
    /\ ret' = NoCall
    /\ UNCHANGED <<binner, raised, rebuilder, analyser, nights>>

NextWith(A) ==
    \/ BinnerSetParameters(A)
    \/ DPBSetParameters(A)
    \/ BinnerGetBinIterator
    \/ DPBGetBinIterator
    \/ SplitIteratorInChunks(A)
    \/ GetBinIteratorsForProcessing
    \/ ProcessEvent
    \/ ProcessActivity
    \/ Return

Init == InitWith(MainArgs)
Next == NextWith(MainArgs)
Spec == Init /\ [][Next]_vars

InitTable == InitWith(TableArgs)
NextTable == NextWith(TableArgs)
SpecTable == InitTable /\ [][NextTable]_vars

InitScenario == InitWith(ScenarioArgs)
NextScenario == NextWith(ScenarioArgs)
SpecScenario == InitScenario /\ [][NextScenario]_vars

InitClock == InitWith(ClockArgs)
NextClock ==
    \/ BinnerSetParameters(ClockArgs)
    \/ DPBSetParameters(ClockArgs)
    \/ FrameToTime
    \/ TimeToFrame
    \/ Return
SpecClock == InitClock /\ [][NextClock]_vars

InitWindow == InitWith(WindowArgs)
NextWindow ==
    \/ BinnerSetParameters(WindowArgs)
    \/ DPBSetParameters(WindowArgs)
    \/ BinnerGetBinIterator
    \/ DPBGetBinIterator
    \/ Return
SpecWindow == InitWindow /\ [][NextWindow]_vars

InitSensors ==
    /\ InitDPB(SensorArgs)
    /\ raised = FALSE
    /\ ret = NoCall
    /\ rebuilder = Absent
    /\ analyser = Absent
    /\ nights = Absent
NextSensors ==
    \/ DPBSetParameters(SensorArgs)
    \/ CalculateSensorsStatistics
    \/ GetDfSensors
    \/ Return
SpecSensors == InitSensors /\ [][NextSensors]_vars

(* The runs of a DataFrameConstructor over the chunks of its binner, on a  *)
(* store that may fail, and of an EventsRebuilder over the windows of its  *)
(* binner.                                                                 *)
InitRun ==
    \/ /\ InitDPB(RunArgs)
       /\ ret = NoCall
       /\ raised = FALSE
       /\ rebuilder = Absent
       /\ analyser = Absent
       /\ nights = Absent
    \/ /\ InitRebuilder(RunArgs)
       /\ raised = FALSE
       /\ analyser = Absent
       /\ nights = Absent
NextRun ==
    \/ DPBSetParameters(RunArgs)
    \/ ProcessEventFailing
    \/ ProcessActivityFailing
    \/ RebuilderSetRebuildOption
    \/ RebuilderSetEventsToRebuild
    \/ Rebuild
    \/ Return
SpecRun == InitRun /\ [][NextRun]_vars

(* The settings of an LMTAnalyser whose database is not loaded yet: no     *)
(* binner is constructed.                                                  *)
InitSettings ==
    /\ binner = Absent
    /\ raised = FALSE
    /\ rebuilder = Absent
    /\ InitAnalyser
    /\ nights = Absent
NextSettings ==
    \/ AnalyserSetFilters
    \/ AnalyserSetEventsToAnalyse
    \/ AnalyserSetRebuildOption
    \/ Return
SpecSettings == InitSettings /\ [][NextSettings]_vars

(* The reports of an LMTAnalyser: draw_nights with its night hours.  A     *)
(* call of draw_nights that has started goes on running; nights holds the  *)
(* local variables of the call under way.                                  *)
InitNights ==
    /\ binner = Absent
    /\ raised = FALSE
    /\ rebuilder = Absent
    /\ \E night_begin \in NightBegins, night_duration \in NightDurations :
        /\ analyser = LMTAnalyser_init(night_begin, night_duration, TRUE,
                                       TRUE, None, "MISSING")
        /\ ret = Call("LMTAnalyser", <<night_begin, night_duration>>,
                      Value(<<>>))
    /\ nights = Absent
NextNights ==
    \/ AnalyserSetNightHours
    \/ DrawNights
    \/ DrawNightsWhile
    \/ Return
SpecNights == InitNights /\ [][NextNights]_vars /\ WF_vars(DrawNightsWhile)

-----------------------------------------------------------------------------
(* Bin table properties                                                    *)

(* C1. Bin contiguity: in the bin table, the end frame of every bin but    *)
(* the last is one less than the start frame of the next bin.              *)
BinsContiguous ==
    \A i \in 1..(Len(binner.bin_df) - 1) :
        binner.bin_df[i].END_FRAME + 1 = binner.bin_df[i + 1].START_FRAME

(* C2. Bin range: the first bin starts at frame 1, the last bin ends at    *)
(* last_frame, and every bin has 1 <= START_FRAME <= END_FRAME <=          *)
(* last_frame.                                                             *)
BinsWithinRecording ==
    LET df == binner.bin_df
    IN  /\ Len(df) > 0
        /\ df[1].START_FRAME = 1
        /\ df[Len(df)].END_FRAME = binner.last_frame
        /\ \A i \in 1..Len(df) :
              /\ 1 <= df[i].START_FRAME
              /\ df[i].START_FRAME <= df[i].END_FRAME
              /\ df[i].END_FRAME <= binner.last_frame

(* The bin table is the one calculate_bin_df builds for quarter-hour bins  *)
(* at 30 frames per second.                                                *)
QuarterHourTable ==
    /\ ~raised
    /\ binner.fps = oneSecond
    /\ binner.bin_size = 15 * oneMinute

(* Ticks from the instant t to the nearest quarter of an hour.             *)
OffQuarter(t) ==
    LET q == 15 * TicksPerMinute
    IN  Min(t % q, q - (t % q))

(* C4 as stated. Calendar alignment: with quarter-hour bins at 30 frames   *)
(* per second, the unclamped START_TIME of every bin is on a quarter of an *)
(* hour (minute % 15 = 0, second = 0, no fraction of a second).            *)
QuarterAligned ==
    QuarterHourTable =>
        \A i \in 1..Len(binner.bin_df) :
            OffQuarter(binner.bin_df[i].START_TIME) = 0

(* C4 amended. With quarter-hour bins at 30 frames per second, the         *)
(* unclamped START_TIME of every bin is the instant of the frame nearest   *)
(* to a quarter of an hour: at most half a frame period away from it, and  *)
(* on it only when frame 0 is a whole number of frame periods away from a  *)
(* quarter of an hour.                                                     *)
QuarterAlignedToNearestFrame ==
    QuarterHourTable =>
        \A i \in 1..Len(binner.bin_df) :
            /\ 2 * OffQuarter(binner.bin_df[i].START_TIME)
                  <= FramePeriod(binner.fps)
            /\ OffQuarter(binner.bin_df[i].START_TIME) = 0
                  <=> OffQuarter(binner.bin_0.TIMESTAMP)
                          % FramePeriod(binner.fps) = 0

(* A quarter-hour table of a recording whose frames do not fall on the     *)
(* quarters of an hour.                                                    *)
QuarterNearestFrameWitness ==
    /\ QuarterHourTable
    /\ Len(binner.bin_df) > 1
    /\ \A i \in 1..Len(binner.bin_df) :
          OffQuarter(binner.bin_df[i].START_TIME) # 0

-----------------------------------------------------------------------------
(* Clock properties                                                        *)

-----------------------------------------------------------------------------
(* Chunk properties                                                        *)

(* The chunks' bin lists, one after the other.                             *)
RECURSIVE Flatten(_)
Flatten(chunks) ==
    IF chunks = <<>> THEN <<>> ELSE Head(chunks) \o Flatten(Tail(chunks))

(* C6. Chunk partition: the chunks of split_iterator_in_chunks, put end to *)
(* end, are the bin iterator it was given; and under an accepted           *)
(* configuration the chunks of get_bin_iterators_for_processing, put end   *)
(* to end, are the sequence get_bin_iterator returns.                      *)
ChunkPartition ==
    /\ (ret.op = "split_iterator_in_chunks" /\ ~ret.raised)
          => Flatten(ret.value) = ret.arg[2]
    /\ (ret.op = "get_bin_iterators_for_processing" /\ ~raised)
          => /\ ~ret.raised
             /\ Flatten(ret.value) = DPB_get_bin_iterator(binner).value

(* A windowed configuration whose bins are handed out in several chunks.   *)
ChunkPartitionWitness ==
    /\ ret.op = "get_bin_iterators_for_processing"
    /\ ~raised
    /\ binner.start_frame > 1
    /\ Len(ret.value) > 1
    /\ \A c \in 1..Len(ret.value) : Len(ret.value[c]) > 1
    /\ Flatten(ret.value) = DPB_get_bin_iterator(binner).value

(* Frames from the start of the first bin of a chunk to the end of its     *)
(* last bin.                                                               *)
ChunkSpan(chunk) == chunk[Len(chunk)][2] - chunk[1][1] + 1

(* Every chunk of several bins spans less than (strict), or no more than,  *)
(* chunk_size frames.                                                      *)
SpansBelow(chunks, chunk_size, strict) ==
    \A c \in 1..Len(chunks) :
        Len(chunks[c]) > 1 =>
            IF strict THEN ChunkSpan(chunks[c]) < chunk_size
                      ELSE ChunkSpan(chunks[c]) <= chunk_size

(* C7 as stated. Chunk size bound: every chunk of more than one bin, of    *)
(* either planner, spans strictly less than the chunk size.                *)
ChunkSpanStrict ==
    /\ (ret.op = "split_iterator_in_chunks" /\ ~ret.raised)
          => SpansBelow(ret.value, ret.arg[1], TRUE)
    /\ (ret.op = "get_bin_iterators_for_processing" /\ ~raised)
          => SpansBelow(ret.value, binner.chunk_size, TRUE)

(* C7 amended. Every chunk of more than one bin spans strictly less than   *)
(* the chunk size when split_iterator_in_chunks made it, and no more than  *)
(* the chunk size when get_bin_iterators_for_processing made it.           *)
ChunkSpanBounded ==
    /\ (ret.op = "split_iterator_in_chunks" /\ ~ret.raised)
          => SpansBelow(ret.value, ret.arg[1], TRUE)
    /\ (ret.op = "get_bin_iterators_for_processing" /\ ~raised)
          => SpansBelow(ret.value, binner.chunk_size, FALSE)

(* get_bin_iterators_for_processing hands out a chunk of several bins that *)
(* spans exactly chunk_size frames.                                        *)
ChunkSpanBoundedWitness ==
    /\ ret.op = "get_bin_iterators_for_processing"
    /\ ~raised
    /\ \E c \in 1..Len(ret.value) :
          /\ Len(ret.value[c]) > 1
          /\ ChunkSpan(ret.value[c]) = binner.chunk_size

-----------------------------------------------------------------------------
(* Scenarios                                                               *)

(* The recording of the scenarios: days whole days at 30 frames per        *)
(* second, frame 0 at midnight, quarter-hour bins, the whole recording     *)
(* as window.                                                              *)
ScenarioRecording(days) ==
    /\ ~raised
    /\ binner.last_frame = days * oneDay
    /\ binner.fps = oneSecond
    /\ binner.bin_0.TIMESTAMP = 0
    /\ binner.bin_size = 15 * oneMinute
    /\ binner.start_frame = 1
    /\ binner.end_frame = binner.last_frame

(* C3. Scenario A: for the one-day recording the bin planner returns 96    *)
(* bins, the first starting at frame 1 and the last ending at frame        *)
(* 2,592,000.                                                              *)
ScenarioA ==
    (ScenarioRecording(1) /\ ret.op = "get_bin_iterator") =>
        /\ ~ret.raised
        /\ Len(binner.bin_df) = 96
        /\ Len(ret.value) = 96
        /\ ret.value[1][1] = 1
        /\ ret.value[Len(ret.value)][2] = oneDay

(* The chunks a planner returned for the scenario recording with a chunk   *)
(* size of one day.                                                        *)
ScenarioChunks(days, cls) ==
    /\ ScenarioRecording(days)
    /\ binner.cls = cls
    /\ ~ret.raised
    /\ IF cls = "Binner"
       THEN ret.op = "split_iterator_in_chunks" /\ ret.arg[1] = oneDay
       ELSE /\ ret.op = "get_bin_iterators_for_processing"
            /\ binner.chunk_size = oneDay

(* C8. Scenario B: for the one-day recording and a chunk size of one day,  *)
(* each chunk planner returns one chunk, holding all 96 bins.              *)
ScenarioB ==
    \A cls \in {"Binner", "DataProcessingBinner"} :
        ScenarioChunks(1, cls) =>
            /\ Len(ret.value) = 1
            /\ Len(ret.value[1]) = 96

ScenarioBWitness ==
    /\ ScenarioChunks(1, "Binner")
    /\ Len(ret.value) = 1
    /\ Len(ret.value[1]) = 96

(* The number of bins of each chunk.                                       *)
ChunkLengths(chunks) == [c \in 1..Len(chunks) |-> Len(chunks[c])]

(* C9 as stated. Scenario C: for the three-day recording and a chunk size  *)
(* of one day, each chunk planner returns exactly 3 chunks, each spanning  *)
(* no more than 2,592,000 frames.                                          *)
ScenarioC ==
    \A cls \in {"Binner", "DataProcessingBinner"} :
        ScenarioChunks(3, cls) =>
            /\ Len(ret.value) = 3
            /\ \A c \in 1..3 : ChunkSpan(ret.value[c]) <= oneDay

(* C9 amended. For the three-day recording and a chunk size of one day,    *)
(* get_bin_iterators_for_processing returns exactly 3 chunks of 96 bins,   *)
(* each spanning no more than 2,592,000 frames;                            *)
(* split_iterator_in_chunks returns 4 chunks, of 96, 95, 95 and 2 bins,    *)
(* each spanning less than 2,592,000 frames.                               *)
ScenarioCPerPlanner ==
    /\ ScenarioChunks(3, "DataProcessingBinner") =>
          /\ ChunkLengths(ret.value) = <<96, 96, 96>>
          /\ Flatten(ret.value) = DPB_get_bin_iterator(binner).value
          /\ \A c \in 1..3 : ChunkSpan(ret.value[c]) <= oneDay
    /\ ScenarioChunks(3, "Binner") =>
          /\ ChunkLengths(ret.value) = <<96, 95, 95, 2>>
          /\ Flatten(ret.value) = Binner_get_bin_iterator(binner).value
          /\ \A c \in 1..4 : ChunkSpan(ret.value[c]) < oneDay

ScenarioCPerPlannerWitness ==
    /\ ScenarioChunks(3, "Binner")
    /\ Len(ret.value) = 4

-----------------------------------------------------------------------------
(* Aggregator properties                                                   *)

(* The rows of a table, as a set.                                          *)
RowSet(df) == {df[k] : k \in 1..Len(df)}

(* The table the call returned, were the window loaded as one chunk: the   *)
(* rows of get_df_event or get_df_activity for the bins of                 *)
(* get_bin_iterator.                                                       *)
UnchunkedRows ==
    LET bins == DPB_get_bin_iterator(binner).value
    IN  IF ret.op = "process_event"
        THEN get_df_event(binner, ret.arg[1], ret.arg[2], bins)
        ELSE get_df_activity(binner, ret.arg[1], bins, ret.arg[2],
                             ret.arg[3])

(* C10. Chunk invariance: under an accepted configuration the table of     *)
(* process_event and of process_activity has one row per animal and bin of *)
(* the window, the rows the bins give when they are not grouped in chunks: *)
(* the rows do not depend on chunk_size.                                   *)
ChunkInvariance ==
    (ret.op \in {"process_event", "process_activity"} /\ ~raised) =>
        /\ ~ret.raised
        /\ RowSet(ret.value.rows) = RowSet(UnchunkedRows)
        /\ Len(ret.value.rows) = Len(UnchunkedRows)
        /\ Len(ret.value.rows)
              = Len(getAnimalList(ret.arg[1]))
                  * Len(DPB_get_bin_iterator(binner).value)

(* A table built from several chunks, with an event across the end of a    *)
(* chunk.                                                                  *)
ChunkInvarianceWitness ==
    /\ ret.op = "process_event"
    /\ ~raised
    /\ ~ret.raised
    /\ LET rows   == ret.value.rows
           chunks == get_bin_iterators_for_processing(binner).value
       IN  /\ Len(chunks) > 1
           /\ \E k, j \in 1..Len(rows), c \in 1..Len(chunks) :
                 /\ rows[k].RFID = rows[j].RFID
                 /\ rows[k].END_FRAME + 1 = rows[j].START_FRAME
                 /\ rows[k].EVENT_COUNT > 0
                 /\ rows[j].EVENT_COUNT > 0
                 /\ chunks[c][Len(chunks[c])][2] = rows[k].END_FRAME

(* The rows of the table for the animal and the bin <<start, end>>.        *)
RowsOf(df, animal, bin) ==
    {k \in 1..Len(df) : /\ df[k].RFID = animal
                        /\ df[k].START_FRAME = bin[1]
                        /\ df[k].END_FRAME = bin[2]}

(* The event of the animal never occurs in the bin.                        *)
NeverOccurs(store, event, animal, bin) ==
    \A iv \in store.events[event][animal] : iv[2] < bin[1] \/ iv[1] > bin[2]

(* C11. Scenario D: under an accepted configuration process_event returns  *)
(* exactly one row for every animal and every bin of the analysis window,  *)
(* (number of animals) x (number of bins) rows in all, and the row of a    *)
(* bin in which the event never occurs has EVENT_COUNT = 0 and             *)
(* DURATION = 0.                                                           *)
EventRowPerAnimalAndBin ==
    (ret.op = "process_event" /\ ~raised) =>
        LET store   == ret.arg[1]
            animals == getAnimalList(store)
            bins    == DPB_get_bin_iterator(binner).value
        IN  /\ ~ret.raised
            /\ Len(ret.value.rows) = Len(animals) * Len(bins)
            /\ \A a \in 1..Len(animals), b \in 1..Len(bins) :
                  LET ks == RowsOf(ret.value.rows, animals[a], bins[b])
                  IN  /\ Cardinality(ks) = 1
                      /\ NeverOccurs(store, ret.arg[2], animals[a], bins[b])
                            => \A k \in ks :
                                 /\ ret.value.rows[k].EVENT_COUNT = 0
                                 /\ ret.value.rows[k].DURATION[1] = 0

(* A table of two animals in which one animal has a bin with the event and *)
(* the next bin without it.                                                *)
EventRowPerAnimalAndBinWitness ==
    /\ ret.op = "process_event"
    /\ ~raised
    /\ ~ret.raised
    /\ Len(getAnimalList(ret.arg[1])) = 2
    /\ \E k \in 1..(Len(ret.value.rows) - 1) :
          /\ ret.value.rows[k].RFID = ret.value.rows[k + 1].RFID
          /\ ret.value.rows[k].EVENT_COUNT > 0
          /\ ret.value.rows[k + 1].EVENT_COUNT = 0
          /\ ret.value.rows[k + 1].DURATION[1] = 0
          /\ NeverOccurs(ret.arg[1], ret.arg[2], ret.value.rows[k + 1].RFID,
                         <<ret.value.rows[k + 1].START_FRAME,
                           ret.value.rows[k + 1].END_FRAME>>)


-----------------------------------------------------------------------------
(* Sensors properties                                                      *)

(* The sensor columns of a table get_df_sensors returned.                  *)
SensorColumns(df) == UNION {DOMAIN df[i].SENSORS : i \in 1..Len(df)}

(* The statistics of each sensor can be computed: every frame of the       *)
(* recording has a row in the FRAME table.                                 *)
NoGap(store) == store.frames = 1..binner.last_frame

(* C12. Sensor skip: if a non-empty proper subset U of the five sensor     *)
(* columns cannot be read, get_df_sensors does not raise and returns a     *)
(* table whose sensor columns are exactly those of the sensors outside U.  *)
SensorSkip ==
    (/\ ret.op = "get_df_sensors"
     /\ NoGap(ret.arg[1])
     /\ ret.arg[1].unreadable \notin {{}, SensorNames}) =>
        /\ ~ret.raised
        /\ ret.value # None
        /\ SensorColumns(Val(ret.value)) = SensorNames \ ret.arg[1].unreadable

(* The values of the samples of a calculate_sensors_statistics call whose  *)
(* frame lies in a bin.                                                    *)
SamplesIn(frame_values, sensor_values, bin) ==
    LET ks == {k \in 1..Len(frame_values) :
                  bin[1] <= frame_values[k] /\ frame_values[k] <= bin[2]}
    IN  [j \in 1..Cardinality(ks) |-> sensor_values[Sorted(ks)[j]]]

(* C13. Sensor binning: for any strictly increasing sequence of sample     *)
(* frames lying in the frame range of the bins (gaps allowed) and any      *)
(* contiguous bin iterator, calculate_sensors_statistics aggregates for    *)
(* each bin exactly the samples whose frame f satisfies start <= f <= end. *)
SensorBinning ==
    (ret.op = "calculate_sensors_statistics" /\ ~ret.raised) =>
        LET bin_iterator == ret.arg[4]
        IN  \A i \in 1..Len(bin_iterator) :
                LET exact == SamplesIn(ret.arg[2], ret.arg[3], bin_iterator[i])
                IN  exact # <<>> =>
                        ret.value[i] = Statistics(ret.arg[1], exact)

(* The mean of no sample.                                                  *)
NaN == <<0, 0>>

(* C14. Sensor totality: calculate_sensors_statistics returns one          *)
(* statistics entry per bin for every input, and a bin that contains no    *)
(* sample gets NaN instead of making the call fail.                        *)
SensorTotality ==
    ret.op = "calculate_sensors_statistics" =>
        LET bin_iterator == ret.arg[4]
        IN  /\ ~ret.raised
            /\ Len(ret.value) = Len(bin_iterator)
            /\ \A i \in 1..Len(bin_iterator) :
                    SamplesIn(ret.arg[2], ret.arg[3],
                              bin_iterator[i]) = <<>> =>
                        ret.value[i].MEAN = NaN

-----------------------------------------------------------------------------
(* Activity properties                                                     *)

(* C15. Undetected duration: in every row emitted by get_df_activity,      *)
(* UNDETECTED_DURATION is at least 0, whatever the stop and move durations *)
(* of the bin are, and the call does not fail.                             *)
UndetectedNonNegative ==
    ret.op = "process_activity" =>
        /\ ~ret.raised
        /\ \A k \in 1..Len(ret.value.rows) :
                ret.value.rows[k].UNDETECTED_DURATION[1] >= 0

-----------------------------------------------------------------------------
(* Parameter validation                                                    *)

(* The arguments of the set_parameters call that ret records.              *)
ArgBinSize == ret.arg[1]
ArgChunkSize == ret.arg[2]
ArgStartFrame == ret.arg[3]
ArgEndFrame == ret.arg[4]
ArgFps == ret.arg[5]

(* The call asks for a window whose start is not below its end.            *)
StartNotBelowEnd ==
    /\ ArgStartFrame # None
    /\ ArgEndFrame # None
    /\ Val(ArgStartFrame) >= Val(ArgEndFrame)

(* C16 as stated. Window errors: set_parameters raises whenever the        *)
(* requested window has start_frame >= end_frame or a start_frame outside  *)
(* [1, last_frame], including start_frame <= 0.                            *)
WindowErrors ==
    (/\ ret.op = "set_parameters"
     /\ \/ StartNotBelowEnd
        \/ /\ ArgStartFrame # None
           /\ \/ Val(ArgStartFrame) < 1
              \/ Val(ArgStartFrame) > binner.last_frame) =>
        ret.raised

(* Nothing but start_frame can make the call raise: the sizes are left as  *)
(* they are and end_frame is left out or lies in 2..last_frame.            *)
OnlyStartFrameGiven ==
    /\ ArgBinSize = None
    /\ ArgChunkSize = None
    /\ binner.bin_size >= 60 * ArgFps
    /\ ArgEndFrame = None \/ Val(ArgEndFrame) > 1

(* C16. Window errors: set_parameters raises whenever the requested        *)
(* window has start_frame >= end_frame or a start_frame above last_frame;  *)
(* a start_frame below 1 is not an error: it is replaced by 1.             *)
WindowErrorsAboveOnly ==
    ret.op = "set_parameters" =>
        /\ (\/ StartNotBelowEnd
            \/ ArgStartFrame # None /\ Val(ArgStartFrame) > binner.last_frame)
               => ret.raised
        /\ (/\ ArgStartFrame # None
            /\ Val(ArgStartFrame) < 1
            /\ OnlyStartFrameGiven)
               => ~ret.raised /\ binner.start_frame = 1

WindowErrorsAboveOnlyWitness ==
    /\ ret.op = "set_parameters"
    /\ ArgStartFrame = Some(0)
    /\ ArgEndFrame = Some(3000)
    /\ ~ret.raised
    /\ binner.start_frame = 1
    /\ binner.end_frame = 3000

(* C17. Window invariant: once a binner has been constructed, in every     *)
(* state reached by any sequence of set_parameters calls, whether each     *)
(* call returns or raises, the stored analysis window satisfies            *)
(* 1 <= start_frame < end_frame <= last_frame.                             *)
WindowInvariant ==
    /\ 1 <= binner.start_frame
    /\ binner.start_frame < binner.end_frame
    /\ binner.end_frame <= binner.last_frame

(* C18. Inclusive bounds: set_parameters rejects a bin_size only when it   *)
(* is strictly less than one minute of frames, and a chunk_size only when  *)
(* it is strictly less than one hour of frames or strictly less than       *)
(* bin_size.  The calls considered leave the window out, so that only the  *)
(* sizes can make them raise.                                              *)
InclusiveBounds ==
    (/\ ret.op = "set_parameters"
     /\ ArgStartFrame = None
     /\ ArgEndFrame = None
     /\ ret.raised) =>
        \/ ArgBinSize # None /\ Val(ArgBinSize) < 60 * ArgFps
        \/ /\ ArgChunkSize # None
           /\ \/ Val(ArgChunkSize) < oneHour
              \/ Val(ArgChunkSize) < binner.bin_size

-----------------------------------------------------------------------------
(* Iterator properties                                                     *)

(* get_bin_iterator has been called on a recording shorter than one bin,   *)
(* whose window is the whole recording and whose bin table is that of its  *)
(* parameters.                                                             *)
ShortRecording ==
    /\ ret.op = "get_bin_iterator"
    /\ ~raised
    /\ binner.last_frame < binner.bin_size
    /\ binner.start_frame = 1
    /\ binner.end_frame = binner.last_frame

ShortRecordingBinsFor(self, s) ==
    IF s <= 1 \/ s > self.last_frame THEN <<<<1, self.last_frame>>>>
    ELSE IF s = self.last_frame THEN <<<<1, self.last_frame - 1>>>>
    ELSE IF s = 2 /\ self.cls = "Binner" THEN <<<<2, self.last_frame>>>>
    ELSE <<<<1, s - 1>>, <<s, self.last_frame>>>>

WindowPartition ==
    (/\ ret.op = "get_bin_iterator"
     /\ ~raised
     /\ 1 <= binner.start_frame
     /\ binner.start_frame < binner.end_frame
     /\ binner.end_frame <= binner.last_frame) =>
        /\ ~ret.raised
        /\ ret.value # <<>>
        /\ ret.value[1][1] = binner.start_frame
        /\ ret.value[Len(ret.value)][2] = binner.end_frame
        /\ \A i \in 1..Len(ret.value) : ret.value[i][1] <= ret.value[i][2]
        /\ \A i \in 1..(Len(ret.value) - 1) :
                ret.value[i][2] + 1 = ret.value[i + 1][1]

-----------------------------------------------------------------------------
(* Tables and parameters                                                   *)

(* The step is a set_parameters call that passes nothing but start_frame   *)
(* and end_frame (fps, which Binner.set_parameters also takes, is then 30) *)
(* or a call of get_bin_iterator.                                          *)
WindowOnlyStep ==
    \/ /\ ret'.op = "set_parameters"
       /\ ret'.arg[1] = None
       /\ ret'.arg[2] = None
       /\ binner.cls = "Binner" => ret'.arg[5] = oneSecond
    \/ ret'.op = "get_bin_iterator"

(* The tables of the binner are those of its parameters (no call has       *)
(* raised half-way) and round() is on no tie in calculate_bin_df, so that  *)
(* computing bin_df again gives the same table.                            *)
TablesSettled ==
    /\ ~raised
    /\ StartFrameBin1(binner, 0) = StartFrameBin1(binner, 1)

(* C21. Window change: a set_parameters call that passes only start_frame  *)
(* and/or end_frame, and get_bin_iterator, leave bin_df, bin_size and the  *)
(* sampling rate as they were, for a binner constructed with any rate.     *)
WindowOnlyKeepsTable ==
    [][(TablesSettled /\ WindowOnlyStep) =>
           /\ binner'.bin_df = binner.bin_df
           /\ binner'.bin_size = binner.bin_size
           /\ binner'.fps = binner.fps]_vars

(* C22. Tables follow parameters: in every state reachable through         *)
(* set_parameters calls, returning or raising, bin_df is the table         *)
(* calculate_bin_df yields for the stored bin_size and rate, and the       *)
(* chunk_df of a DataProcessingBinner is the table calculate_chunk_df      *)
(* yields for the stored bin_df, chunk_size and start_frame.               *)
TablesFollowParameters ==
    /\ binner.bin_size \div (60 * binner.fps) # 0
    /\ \E tie \in {0, 1} : binner.bin_df = calculate_bin_df(binner, tie)
    /\ binner.cls = "DataProcessingBinner" =>
           binner.chunk_df = calculate_chunk_df(binner)

(* The Binner.set_parameters call that ret records has passed every check  *)
(* before calculate_bin_df: fps, bin_size and the frame limits.            *)
ReachedCalculateBinDf ==
    /\ ret.op = "set_parameters"
    /\ binner.cls = "Binner"
    /\ ArgFps >= 1
    /\ ArgBinSize = None \/ Val(ArgBinSize) >= 60 * ArgFps
    /\ ~SetWindow(binner, ArgStartFrame, ArgEndFrame).raised

(* C25. Bin of at least one minute: every time Binner.set_parameters       *)
(* reaches calculate_bin_df, the stored bin_size is at least one minute of *)
(* frames at the stored rate, also when the call changes fps without       *)
(* passing bin_size.                                                       *)
BinAtLeastOneMinute ==
    ReachedCalculateBinDf => binner.bin_size >= 60 * binner.fps

(* C26. Chunk at least a bin: after any sequence of                        *)
(* DataProcessingBinner.set_parameters calls that all return normally,     *)
(* chunk_size >= bin_size.  raised is false as long as no call has raised  *)
(* since the last call that returned.                                      *)
ChunkAtLeastBin ==
    (binner.cls = "DataProcessingBinner" /\ ~raised) =>
        binner.chunk_size >= binner.bin_size

(* C29. Window reset: a set_parameters call that passes neither            *)
(* start_frame nor end_frame (set_time_window, set_processing_window) and  *)
(* returns resets the analysis window to the whole recording               *)
(* [1, last_frame], whatever the window was; bin_size and chunk_size       *)
(* persist when the call omits them.                                       *)
WindowReset ==
    [][(/\ ret'.op = "set_parameters"
        /\ ~ret'.raised
        /\ ret'.arg[3] = None
        /\ ret'.arg[4] = None) =>
           /\ binner'.start_frame = 1
           /\ binner'.end_frame = binner.last_frame
           /\ ret'.arg[1] = None => binner'.bin_size = binner.bin_size
           /\ ret'.arg[2] = None => binner'.chunk_size = binner.chunk_size]_vars

(* A call that passes only a size has returned and the window is the whole *)
(* recording.                                                              *)
WindowResetWitness ==
    /\ ret.op = "set_parameters"
    /\ ~ret.raised
    /\ ArgStartFrame = None
    /\ ArgEndFrame = None
    /\ ArgBinSize # None
    /\ binner.start_frame = 1
    /\ binner.end_frame = binner.last_frame

-----------------------------------------------------------------------------
(* Order of the rows                                                       *)

(* The chunks of the process iterator in which the bin of a row lies.      *)
ChunksOfRow(row) ==
    LET chunks == get_process_iterator(binner).value
    IN  {c \in 1..Len(chunks) :
            BinInChunk(<<row.START_FRAME, row.END_FRAME>>, chunks[c])}

(* C27. Row order: in the table returned by process_event and              *)
(* process_activity, every row of an earlier chunk precedes every row of a *)
(* later chunk, and for each animal the rows appear in strictly increasing *)
(* START_FRAME order, so that no (animal, bin) pair is repeated.           *)
RowOrder ==
    (ret.op \in {"process_event", "process_activity"}
     /\ ~raised /\ ~ret.raised) =>
        LET rows == ret.value.rows
        IN  /\ \A k \in 1..Len(rows) : ChunksOfRow(rows[k]) # {}
            /\ \A j, k \in 1..Len(rows) :
                   j < k =>
                       /\ \A cj \in ChunksOfRow(rows[j]) :
                          \A ck \in ChunksOfRow(rows[k]) : cj <= ck
                       /\ rows[j].RFID = rows[k].RFID =>
                              rows[j].START_FRAME < rows[k].START_FRAME

(* A table of two animals over several chunks: the rows of the second      *)
(* animal in the first chunk come before the rows of the first animal in   *)
(* the second chunk.                                                       *)
RowOrderWitness ==
    /\ ret.op = "process_activity"
    /\ ~raised
    /\ ~ret.raised
    /\ LET rows == ret.value.rows
       IN  \E j, k \in 1..Len(rows) :
               /\ j < k
               /\ rows[j].RFID # rows[k].RFID
               /\ rows[k].RFID = getAnimalList(ret.arg[1])[1]
               /\ ChunksOfRow(rows[j]) = {1}
               /\ ChunksOfRow(rows[k]) = {2}


-----------------------------------------------------------------------------
(* EventsRebuilder properties                                              *)

(* The events of LMT that the EVENT table of the database has not.         *)
MissingEvents == ALL_EVENTS \ rebuilder.database_events

(* C23. Missing events: an EventsRebuilder constructed with the rebuild    *)
(* option MISSING selects for rebuild exactly the events of LMT (the keys  *)
(* of ALL_EVENTS) that the EVENT table of the database has not; when some  *)
(* event is missing, list_events is not empty and rebuild() rebuilds it.   *)
MissingSelected ==
    (ret.op = "EventsRebuilder" /\ ret.arg[1] = "MISSING") =>
        /\ rebuilder.list_events = MissingEvents
        /\ MissingEvents # {} =>
               /\ rebuilder.list_events # {}
               /\ LET o == rebuild(rebuilder, binner)
                  IN  ~o.raised => o.value.events = MissingEvents


-----------------------------------------------------------------------------
(* Failures of the data store                                              *)

(* The chunks of the window whose load fails on the store.                 *)
FailingChunks(store, chunks) ==
    {k \in 1..Len(chunks) : ChunkRaises(store, chunks[k])}

(* The windows of the rebuilder for which rebuild_window raises.           *)
FailingWindows(windows) ==
    {k \in 1..Len(windows) : WindowRaises(rebuilder, windows[k])}

(* C28. A failure aborts the run: if the data store raises during chunk k  *)
(* of process_event or process_activity, or rebuild_window raises for      *)
(* window k of rebuild, the call ends with an exception that reaches the   *)
(* caller, raised at the first such k: no chunk or window after it is      *)
(* loaded or processed, none is retried and no partial table is returned.  *)
FailureAbortsRun ==
    /\ ret.op \in {"process_event", "process_activity"} =>
          LET it == get_bin_iterators_for_processing(binner)
          IN  (/\ ~it.raised
               /\ \A c \in 1..Len(it.value) : it.value[c] # <<>>
               /\ FailingChunks(ret.arg[1], it.value) # {}) =>
                  /\ ret.raised
                  /\ ret.value.failed_at
                        = Least(FailingChunks(ret.arg[1], it.value))
    /\ ret.op = "rebuild" =>
          LET it == Binner_get_bin_iterator(binner)
          IN  (/\ rebuilder.list_BuildEvent # {}
               /\ ~it.raised
               /\ FailingWindows(it.value) # {}) =>
                  /\ ret.raised
                  /\ ret.value.failed_at = Least(FailingWindows(it.value))

(* process_activity over three chunks, on a store that fails to read a     *)
(* frame of the second chunk and a frame of the third: the call raised at  *)
(* the second chunk.                                                       *)
FailureAbortsRunWitness ==
    /\ ret.op = "process_activity"
    /\ ret.raised
    /\ LET it == get_bin_iterators_for_processing(binner)
       IN  /\ ~it.raised
           /\ Len(it.value) = 3
           /\ FailingChunks(ret.arg[1], it.value) = {2, 3}
           /\ ret.value.failed_at = 2


-----------------------------------------------------------------------------
(* LMTAnalyser properties                                                  *)

(* C24. Events to rebuild under ANALYSIS: whenever the rebuild option of   *)
(* an LMTAnalyser is ANALYSIS, events_to_rebuild has the content of        *)
(* events_to_analyse, after any sequence of calls of set_filters,          *)
(* set_events_to_analyse and set_rebuild_option.                           *)
AnalysisRebuildsAnalysed ==
    (analyser.cls = "LMTAnalyser" /\ analyser.rebuild_option = "ANALYSIS") =>
        analyser.events_to_rebuild = Some(analyser.events_to_analyse)


-----------------------------------------------------------------------------
(* draw_nights properties                                                  *)

(* C30. Termination: draw_nights terminates for every                      *)
(* start_time < end_time, every night_begin in 0..23 and every             *)
(* night_duration >= 0: the hour cursor h reaches end_time, so the loop    *)
(* ends after finitely many iterations.                                    *)
DrawNightsTerminates ==
    (nights.cls = "draw_nights") ~> (ret.op = "draw_nights")


=============================================================================
